---------------------------- MODULE Spec2Model ----------------------------
(***************************************************************************)
(* Model of the workflow generator's test-generation subsystem:            *)
(*   - the pipeline compiler generateWorkflowYaml (webapp/app/utils/       *)
(*     workflowGenerator; its source is not part of src/, so it is         *)
(*     modelled from spec.md section 4.1 and the generator's test suites), *)
(*   - the command extractor and commandSignature (src/unnamed/part_000,   *)
(*     lines 352-641: integration-tests/scripts/command-extractor.ts),     *)
(*   - the matrix generator (integration-tests/scripts/matrix-generator.ts)*)
(*   - the command runner runCommands (src/unnamed/part_001:               *)
(*     integration-tests/scripts/integration-runner.ts) and the            *)
(*     single-entry runner (integration-tests/scripts/run-single.ts).      *)
(* Strings are TLC strings; the JavaScript string operations the code uses *)
(* (toLowerCase, includes, trim, sort order, join, regular expressions)    *)
(* are modelled character by character.                                    *)
(***************************************************************************)
EXTENDS Integers, Sequences, FiniteSets, TLC

VARIABLES
    cfgA,       \* configuration handed to the compiler / extractor
    cfgB,       \* second configuration: a variation of cfgA, or any other one
    docA,       \* the workflow document compiled from cfgA
    cmdsA,      \* extractTestJobCommands(cfgA)
    cmdsB,      \* extractTestJobCommands(cfgB)
    sigA,       \* commandSignature(cfgA)
    sigB,       \* commandSignature(cfgB)
    pc,         \* position of the caller
    pmIdx,      \* generateNightlyMatrix: position in packageManagers
    testIdx,    \* generateNightlyMatrix: position in testSubsets
    jestIdx,    \* generateNightlyMatrix: position in jestCombos
    cacheIdx,   \* generateNightlyMatrix: position in cachingOptions
    seen,       \* generateNightlyMatrix: the Set<string> of signatures
    entries,    \* generateNightlyMatrix: the entries kept so far
    visited,    \* history: every candidate visited so far, in order, with its signature
    matrix,     \* the matrix returned by the last generator call
    buildCmds,  \* extractBuildJobCommands(cfgA, options)
    allCmds,    \* extractAllCommands(cfgA, options)
    options,    \* the options object of the last extraction call
    stepLabel,  \* name of the step handed to categorizeCommand
    stepCommand,\* run text of the step handed to categorizeCommand
    category,   \* categorizeCommand(stepLabel, stepCommand)
    cmdList,    \* the command list handed to runCommands
    runnerOptions, \* RunnerOptions: continueOnError, skipBuild
    cmdIdx,     \* position of the for loop of runCommands in commands
    results,    \* the CommandResult list of runCommands
    tmpDir,     \* the temporary directory of runCommands: none, created, removed
    execLog,    \* the execSync calls made so far and how each ended
    cli,        \* the command line and file system seen by run-single
    processExit,\* exit code of the run-single process, -1 while it runs
    reported    \* the error message run-single wrote with console.error

vars == <<cfgA, cfgB, docA, cmdsA, cmdsB, sigA, sigB, pc,
          pmIdx, testIdx, jestIdx, cacheIdx, seen, entries, visited, matrix,
          buildCmds, allCmds, options, stepLabel, stepCommand, category,
          cmdList, runnerOptions, cmdIdx, results, tmpDir, execLog, cli, processExit,
          reported>>

compilerVars == <<cfgA, cfgB, docA, cmdsA, cmdsB, sigA, sigB>>

generatorVars == <<pmIdx, testIdx, jestIdx, cacheIdx, seen, entries, visited, matrix>>

extractVars == <<buildCmds, allCmds, options, stepLabel, stepCommand, category>>

runnerVars == <<cmdList, runnerOptions, cmdIdx, results, tmpDir, execLog, cli, processExit,
                reported>>

-----------------------------------------------------------------------------
(* JavaScript string primitives *)

\* Printable ASCII in code-unit order: the codes from 32 (space) to 95, and
\* the codes from 97 ("a") to 126.
AsciiLow == " !\"#$%&'()*+,-./0123456789:;<=>?@ABCDEFGHIJKLMNOPQRSTUVWXYZ[\\]^_"

AsciiHigh == "abcdefghijklmnopqrstuvwxyz{|}~"

UpperCase == "ABCDEFGHIJKLMNOPQRSTUVWXYZ"

LowerCase == "abcdefghijklmnopqrstuvwxyz"

CharAt(s, i) == SubSeq(s, i, i)

includesChar(s, ch) == \E i \in 1..Len(s) : CharAt(s, i) = ch

indexOf(s, ch) == CHOOSE i \in 1..Len(s) : CharAt(s, i) = ch

\* UTF-16 code unit of a one-character string (only "\n" and printable ASCII occur).
CharCodeTable ==
    [ch \in {CharAt(AsciiLow, i) : i \in 1..Len(AsciiLow)}
            \cup {CharAt(AsciiHigh, i) : i \in 1..Len(AsciiHigh)} \cup {"\n", "\t"} |->
        IF ch = "\n" THEN 10
        ELSE IF ch = "\t" THEN 9
        ELSE IF includesChar(AsciiLow, ch) THEN 31 + indexOf(AsciiLow, ch)
        ELSE 96 + indexOf(AsciiHigh, ch)]

charCode(ch) == CharCodeTable[ch]

LowerCharTable ==
    [ch \in DOMAIN CharCodeTable |->
        IF includesChar(UpperCase, ch) THEN CharAt(LowerCase, indexOf(UpperCase, ch))
        ELSE ch]

lowerChar(ch) == LowerCharTable[ch]

RECURSIVE lowerRange(_, _, _)
lowerRange(s, a, b) ==
    IF a > b THEN ""
    ELSE IF a = b THEN lowerChar(CharAt(s, a))
    ELSE LET m == (a + b) \div 2
         IN  lowerRange(s, a, m) \o lowerRange(s, m + 1, b)

\* String.prototype.toLowerCase
toLowerCase(s) == lowerRange(s, 1, Len(s))

\* String.prototype.includes
includes(s, p) ==
    \E i \in 1..(Len(s) - Len(p) + 1) : SubSeq(s, i, i + Len(p) - 1) = p

\* String.prototype.startsWith
startsWith(s, p) == Len(s) >= Len(p) /\ SubSeq(s, 1, Len(p)) = p

isSpace(ch) == ch \in {" ", "\n", "\t"}

\* String.prototype.trim
trim(s) ==
    LET keep == {i \in 1..Len(s) : ~isSpace(CharAt(s, i))}
    IN  IF keep = {} THEN ""
        ELSE LET lo == CHOOSE i \in keep : \A j \in keep : i <= j
                 hi == CHOOSE i \in keep : \A j \in keep : i >= j
             IN  SubSeq(s, lo, hi)

\* Default comparison of Array.prototype.sort: code-unit lexicographic order.
strLess(a, b) ==
    \/ /\ Len(a) < Len(b)
       /\ SubSeq(b, 1, Len(a)) = a
    \/ \E i \in 1..(IF Len(a) < Len(b) THEN Len(a) ELSE Len(b)) :
          /\ SubSeq(a, 1, i - 1) = SubSeq(b, 1, i - 1)
          /\ charCode(CharAt(a, i)) < charCode(CharAt(b, i))

RECURSIVE insertSorted(_, _)
insertSorted(sorted, x) ==
    IF sorted = <<>> THEN <<x>>
    ELSE IF strLess(x, Head(sorted)) THEN <<x>> \o sorted
    ELSE <<Head(sorted)>> \o insertSorted(Tail(sorted), x)

\* Variant: the array is left in the order given.
unsorted(xs) == xs

RECURSIVE sort(_)
\* Array.prototype.sort() without a comparator
sort(xs) ==
    IF xs = <<>> THEN <<>>
    ELSE insertSorted(sort(SubSeq(xs, 1, Len(xs) - 1)), xs[Len(xs)])

RECURSIVE join(_, _)
\* Array.prototype.join
join(xs, sep) ==
    IF xs = <<>> THEN ""
    ELSE IF Len(xs) = 1 THEN xs[1]
    ELSE xs[1] \o sep \o join(Tail(xs), sep)

\* Array.prototype.includes on a list
arrIncludes(xs, x) == \E i \in 1..Len(xs) : xs[i] = x

\* A multi-line regular expression ^(p)$ with the m flag: some line of s is p.
lineEquals(s, p) ==
    \E i \in 1..(Len(s) - Len(p) + 1) :
        /\ SubSeq(s, i, i + Len(p) - 1) = p
        /\ (i = 1 \/ CharAt(s, i - 1) = "\n")
        /\ (i + Len(p) - 1 = Len(s) \/ CharAt(s, i + Len(p)) = "\n")

-----------------------------------------------------------------------------
(* Configuration model (FormValues / AdvancedOptions) *)

PackageManagers == <<"yarn", "npm", "pnpm">>

StorageTypes == <<"github-release", "zoho-drive", "google-drive", "custom">>

BuildItems == <<"dev", "prod-apk", "prod-aab">>

TestItems == <<"typescript", "eslint", "prettier">>

TriggerItems == <<"push-main", "pull-request", "manual">>

\* notificationType is optional; "unset" stands for the absent field.
NotificationTypes == <<"unset", "slack", "discord", "both">>

RECURSIVE subsetsOf(_, _)
\* The subsets of the first n items, built as allTestSubsets builds them: for
\* each item in turn, every subset so far is copied and extended by the item.
subsetsOf(items, n) ==
    IF n = 0 THEN << <<>> >>
    ELSE LET current == subsetsOf(items, n - 1)
         IN  current \o [i \in 1..Len(current) |-> Append(current[i], items[n])]

\* Variant: only the empty subset of static checks.
onlyEmptySubset == << <<>> >>

allTestSubsets == subsetsOf(TestItems, Len(TestItems))

\* All combinations of jest/rntl/hooks options, hooks varying fastest.
allJestCombinations ==
    [k \in 1..8 |->
        [jestTests       |-> ((k - 1) \div 4) % 2 = 1,
         rntlTests       |-> ((k - 1) \div 2) % 2 = 1,
         renderHookTests |-> (k - 1) % 2 = 1]]

baseAdvancedOptions ==
    [iOSSupport |-> FALSE, publishToExpo |-> FALSE, publishToStores |-> FALSE,
     jestTests |-> FALSE, rntlTests |-> FALSE, renderHookTests |-> FALSE,
     caching |-> TRUE, notifications |-> FALSE, notificationType |-> "unset"]

\* baseConfig({}) of the matrix generator (and makeConfig of the tests).
baseConfig ==
    [storageType |-> "github-release", buildTypes |-> <<"dev">>, tests |-> <<>>,
     triggers |-> <<"push-main">>, packageManager |-> "yarn",
     advancedOptions |-> baseAdvancedOptions]

-----------------------------------------------------------------------------
(* Pipeline compiler: generateWorkflowYaml followed by yaml.load.           *)
(* A document is [name, on, env, jobs]; jobs and env keep their key order.  *)
(* A step is a record holding only the keys the step has.                   *)

\* Package-manager command table.
pmCommands(pm) ==
    IF pm = "npm" THEN
        [install |-> "npm install", cacheDir |-> "npm config get cache",
         lockFile |-> "package-lock.json", easInstall |-> "npm install -g eas-cli@latest",
         typecheck |-> "npx tsc", lint |-> "npm run lint",
         format |-> "npm run format:check", jest |-> "npm test",
         rntl |-> "npm run test:rntl", hooks |-> "npm run test:hooks"]
    ELSE IF pm = "pnpm" THEN
        [install |-> "pnpm install", cacheDir |-> "pnpm store path",
         lockFile |-> "pnpm-lock.yaml", easInstall |-> "pnpm add -g eas-cli@latest",
         typecheck |-> "pnpm exec tsc", lint |-> "pnpm run lint",
         format |-> "pnpm run format:check", jest |-> "pnpm test",
         rntl |-> "pnpm run test:rntl", hooks |-> "pnpm run test:hooks"]
    ELSE
        [install |-> "yarn install", cacheDir |-> "yarn cache dir",
         lockFile |-> "yarn.lock", easInstall |-> "yarn global add eas-cli@latest",
         typecheck |-> "yarn tsc", lint |-> "yarn lint",
         format |-> "yarn format:check", jest |-> "yarn test",
         rntl |-> "yarn test:rntl", hooks |-> "yarn test:hooks"]

usesStep(name, action) == [name |-> name, uses |-> action]

runStep(name, command) == [name |-> name, run |-> command]

when(cond, steps) == IF cond THEN steps ELSE <<>>

\* Checkout and Node.js setup, shared by the test job and the build job.
setupSteps(c) ==
    << usesStep("Checkout repository", "actions/checkout@v4"),
       [name |-> "Setup Node.js", uses |-> "actions/setup-node@v4",
        with |-> [cache |-> c.packageManager]] >>

\* caching gates the cache-directory lookup and the cache-restore step.
cacheSteps(c) ==
    LET pm == c.packageManager
        t  == pmCommands(pm)
    IN  when(c.advancedOptions.caching,
          << [name |-> "Get " \o pm \o " cache directory path",
              id   |-> pm \o "-cache-dir-path",
              run  |-> "echo \"dir=$(" \o t.cacheDir \o ")\" >> $GITHUB_OUTPUT"],
             [name |-> "Setup " \o pm \o " cache", uses |-> "actions/cache@v3",
              with |-> [key |-> "${{ runner.os }}-" \o pm \o "-${{ hashFiles('**/"
                                 \o t.lockFile \o "') }}"]] >>)

\* Variant: only the static checks decide whether there is a test job.
hasStaticTests(c) == Len(c.tests) > 0

\* Variant: a test job is emitted only for the jest, RNTL and hook flags.
hasJestFlags(c) ==
    \/ c.advancedOptions.jestTests
    \/ c.advancedOptions.rntlTests
    \/ c.advancedOptions.renderHookTests

hasTestJob(c) ==
    \/ Len(c.tests) > 0
    \/ c.advancedOptions.jestTests
    \/ c.advancedOptions.rntlTests
    \/ c.advancedOptions.renderHookTests

testJobSteps(c) ==
    LET t == pmCommands(c.packageManager)
    IN  setupSteps(c)
        \o cacheSteps(c)
        \o << runStep("Install dependencies", t.install) >>
        \o when(arrIncludes(c.tests, "typescript"),
                << runStep("Run TypeScript check", t.typecheck) >>)
        \o when(arrIncludes(c.tests, "eslint"),
                << runStep("Run ESLint", t.lint) >>)
        \o when(arrIncludes(c.tests, "prettier"),
                << runStep("Run Prettier check", t.format) >>)
        \o when(c.advancedOptions.jestTests,
                << runStep("Run Jest Tests", t.jest) >>)
        \o when(c.advancedOptions.rntlTests,
                << runStep("Run React Native Testing Library Tests", t.rntl) >>)
        \o when(c.advancedOptions.renderHookTests,
                << runStep("Run renderHook Tests", t.hooks) >>)

checkSkipJob ==
    [id |-> "check-skip", runsOn |-> "ubuntu-latest", needs |-> <<>>,
     if |-> "!contains(github.event.head_commit.message, '[skip ci]')",
     steps |-> << runStep("Skip CI check", "echo \"Proceeding with workflow\"") >>]

\* Variant: the test job waits for a job that does not exist.
testJobAfterLint(c) ==
    [id |-> "test", runsOn |-> "ubuntu-latest", needs |-> <<"lint">>,
     if |-> "", steps |-> testJobSteps(c)]

testJob(c) ==
    [id |-> "test", runsOn |-> "ubuntu-latest", needs |-> <<"check-skip">>,
     if |-> "", steps |-> testJobSteps(c)]

\* Variant: the build job is the release job whatever the storage type.
buildJobIdRelease(c) == "build-and-release"

buildJobId(c) ==
    IF c.storageType = "github-release" THEN "build-and-release" ELSE "build-and-deploy"

buildCondition(bt) ==
    "github.event.inputs.buildType == 'all' || github.event.inputs.buildType == '"
    \o bt \o "' || github.event_name == 'push'"

easBuild(platform, profile, output) ==
    "export NODE_OPTIONS=\"--openssl-legacy-provider --max_old_space_size=4096\"\n"
    \o "eas build --platform " \o platform \o " --profile " \o profile
    \o " --local --non-interactive --output=" \o output \o "\n"

\* NODE_ENV of a build step: development for the development profile,
\* production for the production profiles.
nodeEnv(profile) == IF profile = "development" THEN "development" ELSE "production"

buildStep(name, bt, platform, profile, output) ==
    [name |-> name, if |-> buildCondition(bt),
     run |-> easBuild(platform, profile, output),
     env |-> [NODE_ENV |-> nodeEnv(profile)]]

\* One build step per selected build type, in rule-table order.
androidBuildSteps(c) ==
    when(arrIncludes(c.buildTypes, "dev"),
         << buildStep("Build Development APK", "dev", "android", "development",
                      "./app-dev.apk") >>)
    \o when(arrIncludes(c.buildTypes, "prod-apk"),
         << buildStep("Build Production APK", "prod-apk", "android", "production-apk",
                      "./app-prod.apk") >>)
    \o when(arrIncludes(c.buildTypes, "prod-aab"),
         << buildStep("Build Production AAB", "prod-aab", "android", "production",
                      "./app-prod.aab") >>)

iosBuildSteps(c) ==
    when(c.advancedOptions.iOSSupport /\ arrIncludes(c.buildTypes, "dev"),
         << buildStep("Build iOS Development", "dev", "ios", "development",
                      "./app-ios-dev.app") >>)
    \o when(c.advancedOptions.iOSSupport
            /\ (arrIncludes(c.buildTypes, "prod-apk") \/ arrIncludes(c.buildTypes, "prod-aab")),
         << buildStep("Build iOS Production", "prod-aab", "ios", "production",
                      "./app-ios-prod.ipa") >>)

rcloneRemote(storageType) ==
    IF storageType = "zoho-drive" THEN "zohodrive"
    ELSE IF storageType = "google-drive" THEN "gdrive"
    ELSE "cloud"

uploadStep(c, label, bt, file) ==
    [name |-> "Upload " \o label \o " to cloud storage", if |-> buildCondition(bt),
     run |-> "VERSION=$(node -p \"require('./app.json').expo.version\")\n"
             \o "BUILD_NUMBER=$(date +%Y%m%d%H%M)\n"
             \o "FOLDER_PATH=\"App Builds/$VERSION-$BUILD_NUMBER\"\n"
             \o "rclone mkdir \"" \o rcloneRemote(c.storageType) \o ":$FOLDER_PATH\"\n"
             \o "rclone copy " \o file \o " \"" \o rcloneRemote(c.storageType)
             \o ":$FOLDER_PATH/\" -v\n"]

\* Storage rules: a release-creation step for github-release; a sync-tool setup,
\* its configuration and one upload per artifact for the other storage types.
cloudStorageSteps(c) ==
    when(c.storageType # "github-release",
         << [name |-> "Setup rclone", uses |-> "AnimMouse/setup-rclone@v1"],
            runStep("Configure cloud storage",
                    "rm -rf ~/.config/rclone\nmkdir -p ~/.config/rclone\n"
                    \o "cat > ~/.config/rclone/rclone.conf << EOF\n["
                    \o rcloneRemote(c.storageType) \o "]\nEOF\n"
                    \o "chmod 600 ~/.config/rclone/rclone.conf\n"
                    \o "rclone ls " \o rcloneRemote(c.storageType) \o ": --max-depth 1\n") >>
         \o when(arrIncludes(c.buildTypes, "dev"),
                 << uploadStep(c, "Development APK", "dev", "./app-dev.apk") >>)
         \o when(arrIncludes(c.buildTypes, "prod-apk"),
                 << uploadStep(c, "Production APK", "prod-apk", "./app-prod.apk") >>)
         \o when(arrIncludes(c.buildTypes, "prod-aab"),
                 << uploadStep(c, "Production AAB", "prod-aab", "./app-prod.aab") >>))

releaseSteps(c) ==
    when(c.storageType = "github-release",
         << runStep("Generate build information",
                    "VERSION=$(node -p \"require('./app.json').expo.version\")\n"
                    \o "echo \"version=$VERSION\" >> $GITHUB_OUTPUT\n"),
            [name |-> "Create GitHub Release", uses |-> "softprops/action-gh-release@v1",
             env |-> [GITHUB_TOKEN |-> "${{ secrets.GITHUB_TOKEN }}"]] >>)

manualOnly == "github.event_name == 'workflow_dispatch'"

publishSteps(c) ==
    when(c.advancedOptions.publishToExpo,
         << [name |-> "Publish to Expo", if |-> manualOnly, run |-> "eas update --auto"] >>)
    \o when(c.advancedOptions.publishToStores,
         << [name |-> "Submit to Play Store", if |-> manualOnly,
             run |-> "eas submit -p android --path ./app-prod.aab"] >>)
    \o when(c.advancedOptions.publishToStores /\ c.advancedOptions.iOSSupport,
         << [name |-> "Submit to App Store", if |-> manualOnly,
             run |-> "eas submit -p ios --path ./app-ios-prod.ipa"] >>)

\* notificationType defaults to both when notifications are on and it is unset.
notifyChannel(c) ==
    IF c.advancedOptions.notificationType = "unset" THEN "both"
    ELSE c.advancedOptions.notificationType

notificationSteps(c) ==
    when(c.advancedOptions.notifications /\ notifyChannel(c) \in {"slack", "both"},
         << [name |-> "Notify Slack", uses |-> "rtCamp/action-slack-notify@v2"] >>)
    \o when(c.advancedOptions.notifications /\ notifyChannel(c) \in {"discord", "both"},
         << [name |-> "Notify Discord", uses |-> "Ilshidur/action-discord@0.3.2"] >>)

buildJobSteps(c) ==
    LET t == pmCommands(c.packageManager)
    IN  setupSteps(c)
        \o cacheSteps(c)
        \o << runStep("Install dependencies", t.install \o "\n" \o t.easInstall \o "\n"),
              [name |-> "Setup EAS build cache", uses |-> "actions/cache@v3",
               with |-> [path |-> "~/.eas-build-local"]],
              runStep("Verify EAS CLI installation",
                      "echo \"EAS CLI version:\"\neas --version\n"),
              runStep("Fix package.json main entry",
                      "if [ -f ./package.json ]; then\n"
                      \o "  cp package.json package.json.bak\n"
                      \o "  jq '.main = \"node_modules/expo/AppEntry.js\"' package.json > package.json.tmp && mv package.json.tmp package.json\n"
                      \o "else\n  exit 1\nfi\n"),
              runStep("Update metro.config.js for SVG support",
                      "if [ -f ./metro.config.js ]; then\n"
                      \o "  cat > ./metro.config.js << 'EOFMARKER'\n"
                      \o "/* eslint-disable @typescript-eslint/no-var-requires */\n"
                      \o "const { getDefaultConfig } = require('expo/metro-config');\n"
                      \o "module.exports = config;\n"
                      \o "EOFMARKER\nfi\n") >>
        \o androidBuildSteps(c)
        \o iosBuildSteps(c)
        \o cloudStorageSteps(c)
        \o << [name |-> "Upload build artifacts to GitHub",
               uses |-> "actions/upload-artifact@v4",
               with |-> [name |-> "app-builds", retentionDays |-> 7]] >>
        \o releaseSteps(c)
        \o publishSteps(c)
        \o notificationSteps(c)

\* Variant: the build job never waits for the test job.
buildJobAfterSkip(c) ==
    [id |-> buildJobId(c), runsOn |-> "ubuntu-latest", needs |-> <<"check-skip">>,
     if |-> "", steps |-> buildJobSteps(c)]

\* strategy of the build job with iOS support: a matrix over the platform,
\* android on the default runner and an ios leg on macOS.
platformStrategy ==
    [matrix |-> [platform |-> <<"android">>,
                 include  |-> << [platform |-> "ios", runsOn |-> "macos-latest"] >>]]

\* The build job has the key strategy only with iOS support.
buildJob(c) ==
    LET needed    == IF hasTestJob(c) THEN <<"test">> ELSE <<"check-skip">>
        condition == "(github.event_name == 'push' && (github.ref == 'refs/heads/main' || github.ref == 'refs/heads/master')) || github.event_name == 'workflow_dispatch'"
    IN  IF c.advancedOptions.iOSSupport
        THEN [id |-> buildJobId(c),
              runsOn |-> "${{ matrix.platform == 'ios' && 'macos-latest' || 'ubuntu-latest' }}",
              needs |-> needed, if |-> condition, strategy |-> platformStrategy,
              steps |-> buildJobSteps(c)]
        ELSE [id |-> buildJobId(c), runsOn |-> "ubuntu-latest",
              needs |-> needed, if |-> condition, steps |-> buildJobSteps(c)]

secret(name) == [name |-> name, value |-> "${{ secrets." \o name \o " }}"]

\* Variant: the Zoho names are present whatever the storage type.
storageSecretsZohoAlways(storageType) ==
    << secret("RCLONE_CONFIG_ZOHODRIVE_TYPE"), secret("RCLONE_CONFIG_ZOHODRIVE_TOKEN"),
       secret("RCLONE_CONFIG_ZOHODRIVE_DRIVE_ID") >>
    \o (IF storageType = "custom"
        THEN << secret("CLOUD_STORAGE_TYPE"), secret("CLOUD_STORAGE_TOKEN"),
                secret("CLOUD_STORAGE_ROOT_ID") >>
        ELSE <<>>)

storageSecrets(storageType) ==
    IF storageType = "zoho-drive" THEN
        << secret("RCLONE_CONFIG_ZOHODRIVE_TYPE"), secret("RCLONE_CONFIG_ZOHODRIVE_TOKEN"),
           secret("RCLONE_CONFIG_ZOHODRIVE_DRIVE_ID") >>
    ELSE IF storageType = "google-drive" THEN
        << secret("RCLONE_CONFIG_GDRIVE_TYPE"), secret("RCLONE_CONFIG_GDRIVE_TOKEN"),
           secret("RCLONE_CONFIG_GDRIVE_ROOT_FOLDER_ID") >>
    ELSE IF storageType = "custom" THEN
        << secret("CLOUD_STORAGE_TYPE"), secret("CLOUD_STORAGE_TOKEN"),
           secret("CLOUD_STORAGE_ROOT_ID") >>
    ELSE <<>>

envBlock(c) ==
    << secret("EXPO_TOKEN") >>
    \o storageSecrets(c.storageType)
    \o when(c.advancedOptions.iOSSupport,
            << secret("EXPO_APPLE_ID"), secret("EXPO_APPLE_PASSWORD"), secret("EXPO_TEAM_ID") >>)
    \o when(c.advancedOptions.publishToStores, << secret("GOOGLE_PLAY_SERVICE_ACCOUNT") >>)
    \o when(c.advancedOptions.notifications /\ notifyChannel(c) \in {"slack", "both"},
            << secret("SLACK_WEBHOOK") >>)
    \o when(c.advancedOptions.notifications /\ notifyChannel(c) \in {"discord", "both"},
            << secret("DISCORD_WEBHOOK") >>)
    \o << [name |-> "NODE_OPTIONS", value |-> "--openssl-legacy-provider"] >>

\* workflow_dispatch.inputs: the choice buildType over "all" and the selected
\* build types, and with iOS support the choice platform over android and ios.
dispatchInputs(c) ==
    << [name |-> "buildType", type |-> "choice",
        options |-> <<"all">> \o SelectSeq(BuildItems,
                                            LAMBDA b : arrIncludes(c.buildTypes, b))] >>
    \o when(c.advancedOptions.iOSSupport,
            << [name |-> "platform", type |-> "choice",
                options |-> <<"android", "ios">>] >>)

triggerBlock(c) ==
    when(arrIncludes(c.triggers, "push-main"),
         << [key |-> "push", branches |-> <<"main", "master">>, inputs |-> <<>>] >>)
    \o when(arrIncludes(c.triggers, "pull-request"),
         << [key |-> "pull_request", branches |-> <<"main", "master">>, inputs |-> <<>>] >>)
    \o when(arrIncludes(c.triggers, "manual"),
         << [key |-> "workflow_dispatch", branches |-> <<>>,
             inputs |-> dispatchInputs(c)] >>)

\* The document js-yaml loads from generateWorkflowYaml(config).
generateWorkflowYaml(c) ==
    [name |-> "React Native CI/CD",
     on   |-> triggerBlock(c),
     env  |-> envBlock(c),
     jobs |-> << checkSkipJob >>
              \o when(hasTestJob(c), << testJob(c) >>)
              \o << buildJob(c) >>]

-----------------------------------------------------------------------------
(* Command extractor (command-extractor.ts) *)

\* JavaScript truthiness of an optional string field of a step.
truthy(step, field) == field \in DOMAIN step /\ step[field] # ""

\* step.name || dflt
nameOr(step, dflt) == IF truthy(step, "name") THEN step.name ELSE dflt

categorizeCommand(stepName, command) ==
    LET lower     == toLowerCase(command)
        nameLower == toLowerCase(stepName)
        trimmed   == trim(command)
    IN  IF \/ includes(nameLower, "install dependencies")
           \/ lineEquals(trimmed, "yarn install")
           \/ lineEquals(trimmed, "npm install")
           \/ lineEquals(trimmed, "pnpm install")
        THEN "install"
        ELSE IF \/ includes(nameLower, "typescript")
                \/ includes(lower, "tsc")
                \/ includes(lower, "typecheck")
                \/ includes(lower, "type-check")
        THEN "typecheck"
        ELSE IF \/ includes(nameLower, "eslint")
                \/ includes(lower, "eslint")
                \/ includes(lower, "run lint")
        THEN "lint"
        ELSE IF \/ includes(nameLower, "prettier")
                \/ includes(lower, "prettier")
                \/ includes(lower, "format:check")
        THEN "format"
        ELSE IF includes(nameLower, "renderhook") \/ includes(lower, "test:hooks")
        THEN "hooks"
        ELSE IF \/ includes(nameLower, "react native testing library")
                \/ includes(lower, "test:rntl")
        THEN "rntl"
        ELSE IF \/ includes(nameLower, "jest")
                \/ /\ includes(nameLower, "test")
                   /\ ~includes(nameLower, "rntl")
                   /\ ~includes(nameLower, "hook")
                   /\ ~includes(nameLower, "react native testing")
        THEN IF includes(lower, "test:rntl") THEN "rntl"
             ELSE IF includes(lower, "test:hooks") THEN "hooks"
             ELSE "jest"
        ELSE IF \/ includes(nameLower, "cache directory")
                \/ includes(lower, "cache dir")
                \/ includes(lower, "npm config get cache")
                \/ includes(lower, "pnpm store path")
        THEN "cache-dir"
        ELSE IF \/ includes(lower, "eas-cli")
                \/ includes(lower, "yarn global add eas")
                \/ includes(lower, "npm install -g eas")
                \/ includes(lower, "pnpm add -g eas")
        THEN "eas-install"
        ELSE IF includes(lower, "eas build") \/ includes(lower, "eas submit")
        THEN "build"
        ELSE "other"

\* /\$\{\{.*?\}\}/ : "${{" and a later "}}" with no line break in between.
hasGHAExpressions(command) ==
    \E i \in 1..(Len(command) - 4) :
        /\ SubSeq(command, i, i + 2) = "${{"
        /\ \E j \in (i + 3)..(Len(command) - 1) :
              /\ SubSeq(command, j, j + 1) = "}}"
              /\ ~includes(SubSeq(command, i + 3, j - 1), "\n")

extractedCommand(step) ==
    [stepName          |-> nameOr(step, "unnamed"),
     command           |-> step.run,
     category          |-> categorizeCommand(nameOr(step, ""), step.run),
     hasGHAExpressions |-> hasGHAExpressions(step.run)]

\* parsed.jobs[id]: the jobs with that key (at most one).
jobsNamed(doc, id) == SelectSeq(doc.jobs, LAMBDA j : j.id = id)

\* Variant: the first run step of the job is passed over.
runCommandsAfterFirst(job) ==
    LET runSteps == SelectSeq(job.steps, LAMBDA st : truthy(st, "run"))
    IN  [i \in 1..(Len(runSteps) - 1) |-> extractedCommand(runSteps[i + 1])]

\* The run steps of a job, in step order, as extracted commands.
runCommandsOf(job) ==
    LET runSteps == SelectSeq(job.steps, LAMBDA st : truthy(st, "run"))
    IN  [i \in 1..Len(runSteps) |-> extractedCommand(runSteps[i])]

\* Variant: the run steps of every job are walked, not only those of "test".
extractEveryJobCommands(config) ==
    LET parsed == generateWorkflowYaml(config)
        perJob == [i \in 1..Len(parsed.jobs) |-> runCommandsOf(parsed.jobs[i])]
        RECURSIVE flatten(_)
        flatten(n) == IF n = 0 THEN <<>> ELSE flatten(n - 1) \o perJob[n]
    IN  flatten(Len(perJob))

\* extractTestJobCommands from yaml.load on: the run steps of the job "test".
testJobCommandsIn(parsed) ==
    LET found == jobsNamed(parsed, "test")
    IN  IF found = <<>> THEN <<>> ELSE runCommandsOf(found[1])

extractTestJobCommands(config) == testJobCommandsIn(generateWorkflowYaml(config))

\* Variant: the signature keeps the categories and drops the command text.
categorySignature(config) ==
    LET commands == extractTestJobCommands(config)
    IN  join(sort([i \in 1..Len(commands) |-> commands[i].category]), "|")

commandSignature(config) ==
    LET commands == extractTestJobCommands(config)
    IN  join(sort([i \in 1..Len(commands) |->
                     commands[i].category \o ":" \o trim(commands[i].command)]),
             "|")

\* Object.keys(parsed.jobs).find((name) => name.startsWith("build-and-"))
buildJobsFound(doc) == SelectSeq(doc.jobs, LAMBDA j : startsWith(j.id, "build-and-"))

\* Variant: build and other commands are returned whatever the options say.
extractBuildJobCommandsUnfiltered(config, opts) ==
    LET parsed == generateWorkflowYaml(config)
        found  == buildJobsFound(parsed)
    IN  IF found = <<>> THEN <<>> ELSE runCommandsOf(found[1])

\* extractBuildJobCommands from yaml.load on: the run steps of the build job,
\* without those of category build or other unless opts.includeBuildCommands
\* (FALSE when the option is absent or falsy).
buildJobCommandsIn(parsed, opts) ==
    LET found == buildJobsFound(parsed)
    IN  IF found = <<>> THEN <<>>
        ELSE SelectSeq(runCommandsOf(found[1]),
                       LAMBDA cmd : ~(/\ ~opts.includeBuildCommands
                                      /\ cmd.category \in {"build", "other"}))

extractBuildJobCommands(config, opts) ==
    buildJobCommandsIn(generateWorkflowYaml(config), opts)

\* Variant: flagged commands are never dropped.
mergeCommandsUnfiltered(testCommands, buildCommands, opts) ==
    testCommands \o buildCommands

\* [...testCommands, ...buildCommands], then the filter on hasGHAExpressions
\* unless opts.includeGHAExpressions.
mergeCommands(testCommands, buildCommands, opts) ==
    LET allCommands == testCommands \o buildCommands
    IN  IF ~opts.includeGHAExpressions
        THEN SelectSeq(allCommands, LAMBDA cmd : ~cmd.hasGHAExpressions)
        ELSE allCommands

extractAllCommands(config, opts) ==
    mergeCommands(extractTestJobCommands(config),
                  extractBuildJobCommands(config, opts),
                  opts)

-----------------------------------------------------------------------------
(* Matrix generator (matrix-generator.ts) *)

\* Variant: every package manager gets the yarn fixture.
fixtureAlwaysYarn(pkgMgr) == "yarn-app"

fixtureForPkgMgr(pkgMgr) == IF pkgMgr = "npm" THEN "npm-app" ELSE "yarn-app"

\* Variant: npm is enumerated before yarn.
nightlyPackageManagersReversed == <<"npm", "yarn">>

\* generateNightlyMatrix: const packageManagers = ["yarn", "npm"]
nightlyPackageManagers == <<"yarn", "npm">>

\* Variant: the uncached variant is visited first.
cachingValuesReversed == <<FALSE, TRUE>>

cachingValues == <<TRUE, FALSE>>

nightlyHasTests(tests, jestCombo) ==
    \/ Len(tests) > 0
    \/ jestCombo.jestTests
    \/ jestCombo.rntlTests
    \/ jestCombo.renderHookTests

cachingOptions(tests, jestCombo) ==
    IF nightlyHasTests(tests, jestCombo) THEN cachingValues ELSE <<TRUE>>

nightlyConfig(pkgMgr, tests, jestCombo, caching) ==
    [baseConfig EXCEPT
        !.packageManager = pkgMgr,
        !.tests = tests,
        !.advancedOptions =
            [iOSSupport |-> FALSE, publishToExpo |-> FALSE, publishToStores |-> FALSE,
             jestTests |-> jestCombo.jestTests, rntlTests |-> jestCombo.rntlTests,
             renderHookTests |-> jestCombo.renderHookTests,
             caching |-> caching, notifications |-> FALSE,
             notificationType |-> "unset"]]

\* Variant: the name leaves out the caching suffix.
nightlyNameWithoutCaching(pkgMgr, tests, jestCombo, caching) ==
    LET parts == tests
                 \o (IF jestCombo.jestTests THEN <<"jest">> ELSE <<>>)
                 \o (IF jestCombo.rntlTests THEN <<"rntl">> ELSE <<>>)
                 \o (IF jestCombo.renderHookTests THEN <<"hooks">> ELSE <<>>)
        testDesc == IF join(parts, "-") = "" THEN "no-tests" ELSE join(parts, "-")
    IN  pkgMgr \o "-" \o testDesc

nightlyName(pkgMgr, tests, jestCombo, caching) ==
    LET parts == tests
                 \o when(jestCombo.jestTests, <<"jest">>)
                 \o when(jestCombo.rntlTests, <<"rntl">>)
                 \o when(jestCombo.renderHookTests, <<"hooks">>)
        testDesc == IF join(parts, "-") = "" THEN "no-tests" ELSE join(parts, "-")
        cachingDesc == IF caching THEN "" ELSE "-nocache"
    IN  pkgMgr \o "-" \o testDesc \o cachingDesc

nightlyEntry(pkgMgr, tests, jestCombo, caching) ==
    [name    |-> nightlyName(pkgMgr, tests, jestCombo, caching),
     config  |-> nightlyConfig(pkgMgr, tests, jestCombo, caching),
     fixture |-> fixtureForPkgMgr(pkgMgr)]

\* baseConfig({ packageManager, tests, advancedOptions }) of a hand-picked entry.
prEntry(name, pkgMgr, tests, jestCombo, caching, fixture) ==
    [name    |-> name,
     config  |-> nightlyConfig(pkgMgr, tests, jestCombo, caching),
     fixture |-> fixture]

noJest == [jestTests |-> FALSE, rntlTests |-> FALSE, renderHookTests |-> FALSE]

jestOnly == [jestTests |-> TRUE, rntlTests |-> FALSE, renderHookTests |-> FALSE]

allJest == [jestTests |-> TRUE, rntlTests |-> TRUE, renderHookTests |-> TRUE]

rntlHooks == [jestTests |-> FALSE, rntlTests |-> TRUE, renderHookTests |-> TRUE]

allStatic == <<"typescript", "eslint", "prettier">>

\* The hand-picked PR matrix, entry by entry as the source lists it.
generatePrMatrix ==
    << prEntry("npm-no-tests", "npm", <<>>, noJest, TRUE, "npm-app"),
       prEntry("yarn-no-tests", "yarn", <<>>, noJest, TRUE, "yarn-app"),
       prEntry("npm-typescript-only", "npm", <<"typescript">>, noJest, TRUE, "npm-app"),
       prEntry("yarn-typescript-only", "yarn", <<"typescript">>, noJest, TRUE, "yarn-app"),
       prEntry("npm-all-static", "npm", allStatic, noJest, TRUE, "npm-app"),
       prEntry("yarn-all-static", "yarn", allStatic, noJest, TRUE, "yarn-app"),
       prEntry("npm-jest-only", "npm", <<>>, jestOnly, TRUE, "npm-app"),
       prEntry("yarn-jest-only", "yarn", <<>>, jestOnly, TRUE, "yarn-app"),
       prEntry("npm-all-tests", "npm", allStatic, allJest, TRUE, "npm-app"),
       prEntry("yarn-all-tests", "yarn", allStatic, allJest, TRUE, "yarn-app"),
       prEntry("npm-no-caching", "npm", <<"typescript", "eslint">>, jestOnly, FALSE, "npm-app"),
       prEntry("yarn-no-caching", "yarn", <<"typescript", "eslint">>, jestOnly, FALSE, "yarn-app"),
       prEntry("npm-eslint-only", "npm", <<"eslint">>, noJest, TRUE, "npm-app"),
       prEntry("npm-rntl-hooks", "npm", <<>>, rntlHooks, TRUE, "npm-app"),
       prEntry("yarn-prettier-only", "yarn", <<"prettier">>, noJest, TRUE, "yarn-app") >>

\* generateEasMatrix: const packageManagers = ["yarn", "npm"]
easPackageManagers == <<"yarn", "npm">>

easProfiles == <<"development", "production-apk", "production">>

buildTypeMap(profile) ==
    IF profile = "development" THEN <<"dev">>
    ELSE IF profile = "production-apk" THEN <<"prod-apk">>
    ELSE <<"prod-aab">>

\* Variant: the entries ask for the TypeScript check.
easEntryWithTypecheck(pkgMgr, profile) ==
    [name    |-> pkgMgr \o "-eas-" \o profile,
     config  |-> [baseConfig EXCEPT !.packageManager = pkgMgr,
                                    !.buildTypes = buildTypeMap(profile),
                                    !.tests = <<"typescript">>],
     fixture |-> fixtureForPkgMgr(pkgMgr)]

easEntry(pkgMgr, profile) ==
    [name    |-> pkgMgr \o "-eas-" \o profile,
     config  |-> [baseConfig EXCEPT !.packageManager = pkgMgr,
                                    !.buildTypes = buildTypeMap(profile),
                                    !.tests = <<>>],
     fixture |-> fixtureForPkgMgr(pkgMgr)]

\* Package managers outermost, profiles innermost.
generateEasMatrix ==
    [k \in 1..(Len(easPackageManagers) * Len(easProfiles)) |->
        easEntry(easPackageManagers[((k - 1) \div Len(easProfiles)) + 1],
                 easProfiles[((k - 1) % Len(easProfiles)) + 1])]

-----------------------------------------------------------------------------
(* generateNightlyMatrix as a loop: one step per candidate visited *)

loopDone == pmIdx > Len(nightlyPackageManagers)

curPkgMgr == nightlyPackageManagers[pmIdx]

curTests == allTestSubsets[testIdx]

curJestCombo == allJestCombinations[jestIdx]

curCaching == cachingOptions(curTests, curJestCombo)[cacheIdx]

curEntry == nightlyEntry(curPkgMgr, curTests, curJestCombo, curCaching)

\* const sig = commandSignature(config)
curSig == commandSignature(curEntry.config)

\* The four nested for-of loops move on to the next candidate.
advance ==
    IF cacheIdx < Len(cachingOptions(curTests, curJestCombo))
    THEN /\ cacheIdx' = cacheIdx + 1
         /\ UNCHANGED <<pmIdx, testIdx, jestIdx>>
    ELSE IF jestIdx < Len(allJestCombinations)
    THEN /\ cacheIdx' = 1
         /\ jestIdx' = jestIdx + 1
         /\ UNCHANGED <<pmIdx, testIdx>>
    ELSE IF testIdx < Len(allTestSubsets)
    THEN /\ cacheIdx' = 1
         /\ jestIdx' = 1
         /\ testIdx' = testIdx + 1
         /\ UNCHANGED pmIdx
    ELSE /\ cacheIdx' = 1
         /\ jestIdx' = 1
         /\ testIdx' = 1
         /\ pmIdx' = pmIdx + 1

GeneratorIdle ==
    /\ pmIdx = 1
    /\ testIdx = 1
    /\ jestIdx = 1
    /\ cacheIdx = 1
    /\ seen = {}
    /\ entries = <<>>
    /\ visited = <<>>
    /\ matrix = <<>>

CompilerIdle ==
    /\ cfgA = baseConfig
    /\ cfgB = baseConfig
    /\ docA = <<>>
    /\ cmdsA = <<>>
    /\ cmdsB = <<>>
    /\ sigA = ""
    /\ sigB = ""

-----------------------------------------------------------------------------
(* Command runner (integration-runner.ts) and single-entry runner           *)
(* (run-single.ts)                                                          *)

\* const SKIP_CATEGORIES = ["build"]
SKIP_CATEGORIES == <<"build">>

\* How an execSync call ends: it returns, or it raises an error that carries
\* the exit status of the command, or one that carries no status (timeout,
\* kill by a signal, spawn failure).
returnedOutcome == [raised |-> FALSE, hasStatus |-> TRUE, status |-> 0]

failedOutcome(status) == [raised |-> TRUE, hasStatus |-> TRUE, status |-> status]

killedOutcome == [raised |-> TRUE, hasStatus |-> FALSE, status |-> 0]

\* Variant: the exit code is the status of the error, 0 when it has none.
exitCodeFromStatus(outcome) ==
    IF outcome.raised /\ outcome.hasStatus THEN outcome.status ELSE 0

\* let exitCode = 0; ... catch (err) { exitCode = execErr.status || 1 }
exitCodeOf(outcome) ==
    IF ~outcome.raised THEN 0
    ELSE IF outcome.hasStatus /\ outcome.status # 0 THEN outcome.status
    ELSE 1

\* Variant: commands with GitHub Actions expressions are not skipped.
skipReasonBuildOnly(cmd, opts) ==
    IF opts.skipBuild /\ arrIncludes(SKIP_CATEGORIES, cmd.category)
    THEN "build commands skipped (--skip-build)"
    ELSE ""

\* The two skip tests at the head of the loop body; "" when neither applies.
skipReasonOf(cmd, opts) ==
    IF opts.skipBuild /\ arrIncludes(SKIP_CATEGORIES, cmd.category)
    THEN "build commands skipped (--skip-build)"
    ELSE IF cmd.hasGHAExpressions
    THEN "contains GitHub Actions expressions"
    ELSE ""

skippedResult(cmd, reason) ==
    [stepName |-> cmd.stepName, command |-> cmd.command, category |-> cmd.category,
     exitCode |-> 0, skipped |-> TRUE, skipReason |-> reason]

executedResult(cmd, exitCode) ==
    [stepName |-> cmd.stepName, command |-> cmd.command, category |-> cmd.category,
     exitCode |-> exitCode, skipped |-> FALSE]

\* JSON.stringify on one character of a string: the double quote and the
\* backslash get a backslash in front, a line break is written \n, a tab \t
\* and a carriage return \r; every other character of the commands stays.
jsonEscapeChar(ch) ==
    IF ch = "\"" THEN "\\\""
    ELSE IF ch = "\\" THEN "\\\\"
    ELSE IF ch = "\n" THEN "\\n"
    ELSE IF ch = "\t" THEN "\\t"
    ELSE IF ch = "\r" THEN "\\r"
    ELSE ch

RECURSIVE jsonEscapeRange(_, _, _)
jsonEscapeRange(s, a, b) ==
    IF a > b THEN ""
    ELSE IF a = b THEN jsonEscapeChar(CharAt(s, a))
    ELSE LET m == (a + b) \div 2
         IN  jsonEscapeRange(s, a, m) \o jsonEscapeRange(s, m + 1, b)

\* JSON.stringify of a string
jsonStringify(s) == "\"" \o jsonEscapeRange(s, 1, Len(s)) \o "\""

\* Lines 88-91: const execCommand = cmd.command.includes("\n")
\*   ? `bash -c ${JSON.stringify(cmd.command)}` : cmd.command
execCommandOf(cmd) ==
    IF includes(cmd.command, "\n")
    THEN "bash -c " \o jsonStringify(cmd.command)
    ELSE cmd.command

\* Position i of the text between double quotes holds a backslash that quotes
\* the character after it: it stands after an even number of backslashes.
quotingBackslash(s, i) ==
    /\ CharAt(s, i) = "\\"
    /\ LET before == {j \in 0..(i - 1) : j = 0 \/ CharAt(s, j) # "\\"}
           start  == CHOOSE j \in before : \A k \in before : k <= j
       IN  (i - 1 - start) % 2 = 0

\* What /bin/sh keeps of position i between double quotes: a quoting
\* backslash goes when a dollar sign, a double quote, a backslash or a line
\* break follows (or a backquote, a character the strings here cannot hold),
\* and the line break it quotes goes with it; any other backslash stays.
shKeptChar(s, i) ==
    IF /\ quotingBackslash(s, i)
       /\ i < Len(s)
       /\ CharAt(s, i + 1) \in {"$", "\"", "\\", "\n"}
    THEN ""
    ELSE IF i > 1 /\ CharAt(s, i) = "\n" /\ quotingBackslash(s, i - 1)
    THEN ""
    ELSE CharAt(s, i)

RECURSIVE shKeptRange(_, _, _)
shKeptRange(s, a, b) ==
    IF a > b THEN ""
    ELSE IF a = b THEN shKeptChar(s, a)
    ELSE LET m == (a + b) \div 2
         IN  shKeptRange(s, a, m) \o shKeptRange(s, m + 1, b)

\* Lines 98-110: execSync gives execCommand to /bin/sh. A command of one line
\* is the script itself. For the bash -c form the script bash receives is
\* what sh makes of the double-quoted JSON text (the commands of a workflow
\* that reach this branch hold no dollar sign and no backquote, so sh expands
\* nothing in them).
bashScriptOf(cmd) ==
    IF includes(cmd.command, "\n")
    THEN LET quoted == jsonEscapeRange(cmd.command, 1, Len(cmd.command))
         IN  shKeptRange(quoted, 1, Len(quoted))
    ELSE cmd.command

\* Variant: the loop never stops early.
neverBreaks(exitCode, opts) == FALSE

\* if (exitCode !== 0 && !options.continueOnError) break
breaksAfter(exitCode, opts) == exitCode # 0 /\ ~opts.continueOnError

\* Variant: only the last result counts.
lastPassed(rs) == rs = <<>> \/ rs[Len(rs)].exitCode = 0

\* results.filter((r) => !r.skipped).every((r) => r.exitCode === 0)
allPassed(rs) == \A i \in 1..Len(rs) : ~rs[i].skipped => rs[i].exitCode = 0

\* The digits of radix 16 in value order; the first ten are those of radix 10.
DigitChars == "0123456789abcdef"

RECURSIVE decimalDigits(_)
\* The decimal digits of a natural number.
decimalDigits(n) ==
    IF n < 10 THEN CharAt(DigitChars, n + 1)
    ELSE decimalDigits(n \div 10) \o CharAt(DigitChars, (n % 10) + 1)

\* `${n}` for an integer n
numberToString(n) == IF n < 0 THEN "-" \o decimalDigits(-n) ELSE decimalDigits(n)

\* A JavaScript number that is an integer or NaN.
NaN == [nan |-> TRUE, value |-> 0]

\* parseInt(value, undefined), as commander calls the parser of
\* --config-index: white space is passed over, then an optional sign, an
\* optional 0x, and the longest run of digits of the radix; NaN when there is
\* no digit.
parseInt(s) ==
    LET t        == trim(s)
        signed   == startsWith(t, "-") \/ startsWith(t, "+")
        unsigned == IF signed THEN SubSeq(t, 2, Len(t)) ELSE t
        hex      == startsWith(toLowerCase(unsigned), "0x")
        radix    == IF hex THEN 16 ELSE 10
        body     == IF hex THEN SubSeq(unsigned, 3, Len(unsigned)) ELSE unsigned
        isDigit(ch) == \E d \in 1..radix : CharAt(DigitChars, d) = lowerChar(ch)
        count    == CHOOSE k \in 0..Len(body) :
                        /\ \A i \in 1..k : isDigit(CharAt(body, i))
                        /\ k = Len(body) \/ ~isDigit(CharAt(body, k + 1))
        digit(i) == indexOf(DigitChars, lowerChar(CharAt(body, i))) - 1
        RECURSIVE valueOf(_)
        valueOf(k) == IF k = 0 THEN 0 ELSE radix * valueOf(k - 1) + digit(k)
    IN  IF count = 0 THEN NaN
        ELSE [nan |-> FALSE,
              value |-> IF startsWith(t, "-") THEN 0 - valueOf(count) ELSE valueOf(count)]

\* path.resolve(__dirname, ".."): the directory integration-tests of the
\* checkout, an absolute path.
integrationDir == "/repo/integration-tests"

\* The segments of an absolute path: the text between its slashes, in order.
pathSegments(full) ==
    LET slashes == SelectSeq([i \in 1..Len(full) |-> i], LAMBDA i : CharAt(full, i) = "/")
        endOf(k) == IF k = Len(slashes) THEN Len(full) ELSE slashes[k + 1] - 1
    IN  [k \in 1..Len(slashes) |-> SubSeq(full, slashes[k] + 1, endOf(k))]

RECURSIVE normalizeSegments(_, _)
\* The first n segments normalised: empty segments and "." are dropped, ".."
\* drops the segment before it (none at the root).
normalizeSegments(segments, n) ==
    IF n = 0 THEN <<>>
    ELSE LET before == normalizeSegments(segments, n - 1)
         IN  IF segments[n] \in {"", "."} THEN before
             ELSE IF segments[n] = ".."
             THEN SubSeq(before, 1, Len(before) - 1)
             ELSE Append(before, segments[n])

\* path.resolve(base, p) for an absolute base (POSIX): p itself when it is
\* absolute, else p under base; the result is normalised and has no trailing
\* slash.
resolve(base, p) ==
    LET full     == IF startsWith(p, "/") THEN p ELSE base \o "/" \o p
        segments == pathSegments(full)
    IN  "/" \o join(normalizeSegments(segments, Len(segments)), "/")

\* index < 0 || index >= matrix.length: false when index is NaN.
indexOutOfRange(index, loaded) ==
    ~index.nan /\ (index.value < 0 \/ index.value >= Len(loaded))

\* `Config index ${index} out of range (0-${matrix.length - 1})`
outOfRangeMessage(index, loaded) ==
    "Config index " \o numberToString(index.value) \o " out of range (0-"
        \o numberToString(Len(loaded) - 1) \o ")"

\* Variant: the fixture directory is not looked for.
validationErrorWithoutFixture(c, files, dirs) ==
    LET matrixFile == resolve(integrationDir, c.matrixFile)
        index      == parseInt(c.configIndex)
    IN  IF matrixFile \notin DOMAIN files
        THEN "Matrix file not found: " \o matrixFile
        ELSE IF ~files[matrixFile].json
        THEN ""
        ELSE IF indexOutOfRange(index, files[matrixFile].value)
        THEN outOfRangeMessage(index, files[matrixFile].value)
        ELSE ""

\* run-single lines 39-66: the message of the first test that fails, "" when
\* none does or when JSON.parse throws before the range test. files maps the
\* paths of the matrix files that exist to their content, dirs are the paths
\* of the directories that exist.
validationError(c, files, dirs) ==
    LET matrixFile == resolve(integrationDir, c.matrixFile)
        fixtureDir == resolve(integrationDir, c.fixtureDir)
        index      == parseInt(c.configIndex)
    IN  IF matrixFile \notin DOMAIN files
        THEN "Matrix file not found: " \o matrixFile
        ELSE IF fixtureDir \notin dirs
        THEN "Fixture directory not found: " \o fixtureDir
        ELSE IF ~files[matrixFile].json
        THEN ""
        ELSE IF indexOutOfRange(index, files[matrixFile].value)
        THEN outOfRangeMessage(index, files[matrixFile].value)
        ELSE ""

\* Line 56: JSON.parse throws on a matrix file that exists, next to a fixture
\* directory that exists, and does not hold JSON.
parseThrows(c, files, dirs) ==
    LET matrixFile == resolve(integrationDir, c.matrixFile)
    IN  /\ matrixFile \in DOMAIN files
        /\ resolve(integrationDir, c.fixtureDir) \in dirs
        /\ ~files[matrixFile].json

noRunnerOptions == [continueOnError |-> FALSE, skipBuild |-> FALSE]

noCli == [matrixFile |-> "", fixtureDir |-> "", configIndex |-> "",
          continueOnError |-> FALSE, includeBuildJob |-> FALSE, skipBuild |-> FALSE]

RunnerIdle ==
    /\ cmdList = <<>>
    /\ runnerOptions = noRunnerOptions
    /\ cmdIdx = 0
    /\ results = <<>>
    /\ tmpDir = "none"
    /\ execLog = <<>>
    /\ cli = noCli
    /\ processExit = -1
    /\ reported = ""

noOptions == [includeBuildCommands |-> FALSE, includeGHAExpressions |-> FALSE]

ExtractIdle ==
    /\ buildCmds = <<>>
    /\ allCmds = <<>>
    /\ options = noOptions
    /\ stepLabel = ""
    /\ stepCommand = ""
    /\ category = ""

Init ==
    /\ pc = "ready"
    /\ GeneratorIdle
    /\ CompilerIdle
    /\ ExtractIdle
    /\ RunnerIdle

\* --mode pr
CallGeneratePrMatrix ==
    /\ pc = "ready"
    /\ matrix' = generatePrMatrix
    /\ pc' = "pr"
    /\ UNCHANGED <<pmIdx, testIdx, jestIdx, cacheIdx, seen, entries, visited>>
    /\ UNCHANGED compilerVars
    /\ UNCHANGED extractVars
    /\ UNCHANGED runnerVars

\* --mode eas
CallGenerateEasMatrix ==
    /\ pc = "ready"
    /\ matrix' = generateEasMatrix
    /\ pc' = "eas"
    /\ UNCHANGED <<pmIdx, testIdx, jestIdx, cacheIdx, seen, entries, visited>>
    /\ UNCHANGED compilerVars
    /\ UNCHANGED extractVars
    /\ UNCHANGED runnerVars

\* --mode nightly: seen and entries start empty, the loops at their first items.
CallGenerateNightlyMatrix ==
    /\ pc = "ready"
    /\ pc' = "nightly-loop"
    /\ UNCHANGED generatorVars
    /\ UNCHANGED compilerVars
    /\ UNCHANGED extractVars
    /\ UNCHANGED runnerVars

\* Variant: the candidate is kept but its signature is not recorded.
KeepCandidateUnrecorded ==
    /\ pc = "nightly-loop"
    /\ ~loopDone
    /\ curSig \notin seen
    /\ seen' = seen
    /\ entries' = Append(entries, curEntry)
    /\ visited' = Append(visited, [sig |-> curSig, entry |-> curEntry])
    /\ advance
    /\ UNCHANGED <<pc, matrix>>
    /\ UNCHANGED compilerVars
    /\ UNCHANGED extractVars
    /\ UNCHANGED runnerVars

\* if (!seen.has(sig)) { seen.add(sig); entries.push({ name, config, fixture }) }
KeepCandidate ==
    /\ pc = "nightly-loop"
    /\ ~loopDone
    /\ curSig \notin seen
    /\ seen' = seen \cup {curSig}
    /\ entries' = Append(entries, curEntry)
    /\ visited' = Append(visited, [sig |-> curSig, entry |-> curEntry])
    /\ advance
    /\ UNCHANGED <<pc, matrix>>
    /\ UNCHANGED compilerVars
    /\ UNCHANGED extractVars
    /\ UNCHANGED runnerVars

\* seen.has(sig): the candidate is dropped.
SkipDuplicate ==
    /\ pc = "nightly-loop"
    /\ ~loopDone
    /\ curSig \in seen
    /\ visited' = Append(visited, [sig |-> curSig, entry |-> curEntry])
    /\ advance
    /\ UNCHANGED <<pc, matrix, seen, entries>>
    /\ UNCHANGED compilerVars
    /\ UNCHANGED extractVars
    /\ UNCHANGED runnerVars

\* return entries
ReturnNightlyMatrix ==
    /\ pc = "nightly-loop"
    /\ loopDone
    /\ matrix' = entries
    /\ pc' = "nightly"
    /\ UNCHANGED <<pmIdx, testIdx, jestIdx, cacheIdx, seen, entries, visited>>
    /\ UNCHANGED compilerVars
    /\ UNCHANGED extractVars
    /\ UNCHANGED runnerVars

Next ==
    \/ CallGeneratePrMatrix
    \/ CallGenerateEasMatrix
    \/ CallGenerateNightlyMatrix
    \/ KeepCandidate
    \/ SkipDuplicate
    \/ ReturnNightlyMatrix

Spec == Init /\ [][Next]_vars

-----------------------------------------------------------------------------
(* Configurations handed to the compiler *)

Range(xs) == {xs[i] : i \in 1..Len(xs)}

\* Settings of the options that are neither static checks nor jest flags.
MaxFormProfiles == 2

formProfiles ==
    << [storageType |-> "github-release", buildTypes |-> <<"dev">>,
        triggers |-> <<"push-main">>, caching |-> TRUE,
        iOSSupport |-> FALSE, publishToExpo |-> FALSE, publishToStores |-> FALSE,
        notifications |-> FALSE, notificationType |-> "unset"],
       [storageType |-> "zoho-drive", buildTypes |-> <<"dev", "prod-apk", "prod-aab">>,
        triggers |-> <<"push-main", "pull-request", "manual">>, caching |-> FALSE,
        iOSSupport |-> TRUE, publishToExpo |-> TRUE, publishToStores |-> TRUE,
        notifications |-> TRUE, notificationType |-> "unset"],
       [storageType |-> "custom", buildTypes |-> <<"prod-aab">>,
        triggers |-> <<"manual">>, caching |-> TRUE,
        iOSSupport |-> FALSE, publishToExpo |-> FALSE, publishToStores |-> TRUE,
        notifications |-> TRUE, notificationType |-> "slack"],
       [storageType |-> "google-drive", buildTypes |-> <<"prod-apk">>,
        triggers |-> <<"pull-request", "manual">>, caching |-> FALSE,
        iOSSupport |-> TRUE, publishToExpo |-> FALSE, publishToStores |-> FALSE,
        notifications |-> TRUE, notificationType |-> "discord"] >>

FormProfiles ==
    {formProfiles[i] : i \in 1..(IF MaxFormProfiles < Len(formProfiles)
                                 THEN MaxFormProfiles ELSE Len(formProfiles))}

makeConfig(storageType, buildTypes, tests, triggers, pkgMgr, jestCombo, caching, profile) ==
    [storageType |-> storageType, buildTypes |-> buildTypes, tests |-> tests,
     triggers |-> triggers, packageManager |-> pkgMgr,
     advancedOptions |->
        [iOSSupport |-> profile.iOSSupport, publishToExpo |-> profile.publishToExpo,
         publishToStores |-> profile.publishToStores,
         jestTests |-> jestCombo.jestTests, rntlTests |-> jestCombo.rntlTests,
         renderHookTests |-> jestCombo.renderHookTests,
         caching |-> caching, notifications |-> profile.notifications,
         notificationType |-> profile.notificationType]]

\* Every storage type, build-type subset, static-check subset, trigger subset,
\* package manager and jest combination, under each form profile.
CompileConfigs ==
    {makeConfig(s, b, t, g, p, j, f.caching, f) :
        s \in Range(StorageTypes),
        b \in Range(subsetsOf(BuildItems, Len(BuildItems))),
        t \in Range(allTestSubsets),
        g \in Range(subsetsOf(TriggerItems, Len(TriggerItems))),
        p \in Range(PackageManagers),
        j \in Range(allJestCombinations),
        f \in FormProfiles}

InitCompile ==
    /\ pc = "config"
    /\ cfgA \in CompileConfigs
    /\ cfgB = baseConfig
    /\ docA = <<>>
    /\ cmdsA = <<>>
    /\ cmdsB = <<>>
    /\ sigA = ""
    /\ sigB = ""
    /\ GeneratorIdle
    /\ ExtractIdle
    /\ RunnerIdle

\* const yamlStr = generateWorkflowYaml(config); yaml.load(yamlStr)
Compile ==
    /\ pc = "config"
    /\ docA' = generateWorkflowYaml(cfgA)
    /\ pc' = "compiled"
    /\ UNCHANGED <<cfgA, cfgB, cmdsA, cmdsB, sigA, sigB>>
    /\ UNCHANGED generatorVars
    /\ UNCHANGED extractVars
    /\ UNCHANGED runnerVars

NextCompile == Compile

SpecCompile == InitCompile /\ [][NextCompile]_vars

-----------------------------------------------------------------------------
(* Signatures of pairs of configurations *)

\* Every package manager, static-check subset, jest combination and caching
\* choice; the remaining options come from a form profile.
SignatureConfigs ==
    {makeConfig(f.storageType, f.buildTypes, t, f.triggers, p, j, c, f) :
        t \in Range(allTestSubsets),
        p \in Range(PackageManagers),
        j \in Range(allJestCombinations),
        c \in BOOLEAN,
        f \in {formProfiles[1]}}

InitSignature ==
    /\ pc = "config"
    /\ cfgA \in SignatureConfigs
    /\ cfgB = cfgA
    /\ docA = <<>>
    /\ cmdsA = <<>>
    /\ cmdsB = <<>>
    /\ sigA = ""
    /\ sigB = ""
    /\ GeneratorIdle
    /\ ExtractIdle
    /\ RunnerIdle

\* extractTestJobCommands(config) and commandSignature(config) of the first
\* configuration.
Sign ==
    /\ pc = "config"
    /\ cmdsA' = extractTestJobCommands(cfgA)
    /\ sigA' = commandSignature(cfgA)
    /\ pc' = "signed"
    /\ UNCHANGED <<cfgA, cfgB, docA, cmdsB, sigB>>
    /\ UNCHANGED generatorVars
    /\ UNCHANGED extractVars
    /\ UNCHANGED runnerVars

\* The commands and the signature of every configuration of the domain,
\* each computed once.
signatureTable ==
    [c \in SignatureConfigs |->
        [commands |-> extractTestJobCommands(c), signature |-> commandSignature(c)]]

\* The second configuration is extracted and signed.
signSecond(config, label) ==
    /\ pc = "signed"
    /\ config # cfgA
    /\ cfgB' = config
    /\ cmdsB' = IF config \in SignatureConfigs
                THEN signatureTable[config].commands
                ELSE extractTestJobCommands(config)
    /\ sigB' = IF config \in SignatureConfigs
               THEN signatureTable[config].signature
               ELSE commandSignature(config)
    /\ pc' = label
    /\ UNCHANGED <<cfgA, docA, cmdsA, sigA>>
    /\ UNCHANGED generatorVars
    /\ UNCHANGED extractVars
    /\ UNCHANGED runnerVars

VaryStorageType ==
    \E s \in Range(StorageTypes) :
        signSecond([cfgA EXCEPT !.storageType = s], "varied")

VaryBuildTypes ==
    \E b \in Range(subsetsOf(BuildItems, Len(BuildItems))) :
        signSecond([cfgA EXCEPT !.buildTypes = b], "varied")

VaryTriggers ==
    \E g \in Range(subsetsOf(TriggerItems, Len(TriggerItems))) :
        signSecond([cfgA EXCEPT !.triggers = g], "varied")

VaryNotifications ==
    \E n \in BOOLEAN, t \in Range(NotificationTypes) :
        signSecond([cfgA EXCEPT !.advancedOptions.notifications = n,
                                !.advancedOptions.notificationType = t], "varied")

VaryIOSSupport ==
    signSecond([cfgA EXCEPT !.advancedOptions.iOSSupport = ~cfgA.advancedOptions.iOSSupport],
               "varied")

\* Several of the five options change at once: they are taken from a profile.
VaryProfile ==
    \E i \in 1..Len(formProfiles) :
        signSecond([cfgA EXCEPT !.storageType = formProfiles[i].storageType,
                                !.buildTypes = formProfiles[i].buildTypes,
                                !.triggers = formProfiles[i].triggers,
                                !.advancedOptions.iOSSupport = formProfiles[i].iOSSupport,
                                !.advancedOptions.notifications = formProfiles[i].notifications,
                                !.advancedOptions.notificationType =
                                    formProfiles[i].notificationType], "varied")

\* Any other configuration of the domain.
CompareWith ==
    \E other \in SignatureConfigs : signSecond(other, "compared")

NextSignature ==
    \/ Sign
    \/ VaryStorageType
    \/ VaryBuildTypes
    \/ VaryTriggers
    \/ VaryNotifications
    \/ VaryIOSSupport
    \/ VaryProfile
    \/ CompareWith

SpecSignature == InitSignature /\ [][NextSignature]_vars

-----------------------------------------------------------------------------
(* Properties of the command signature (SpecSignature) *)

secondSigned == pc \in {"varied", "compared"}

\* The two configurations agree on everything but storage type, build types,
\* triggers, notification settings and iOS support.
differOnlyInNonExecutable(a, b) ==
    /\ a # b
    /\ a.packageManager = b.packageManager
    /\ a.tests = b.tests
    /\ a.advancedOptions.jestTests = b.advancedOptions.jestTests
    /\ a.advancedOptions.rntlTests = b.advancedOptions.rntlTests
    /\ a.advancedOptions.renderHookTests = b.advancedOptions.renderHookTests
    /\ a.advancedOptions.caching = b.advancedOptions.caching
    /\ a.advancedOptions.publishToExpo = b.advancedOptions.publishToExpo
    /\ a.advancedOptions.publishToStores = b.advancedOptions.publishToStores

\* C1: two configurations that differ only in storage type, build types,
\* triggers, notification settings or iOS support have the same command
\* signature.
C1_SignatureIgnoresNonExecutableOptions ==
    (secondSigned /\ differOnlyInNonExecutable(cfgA, cfgB)) => sigA = sigB

C1_Witness ==
    /\ pc = "varied"
    /\ differOnlyInNonExecutable(cfgA, cfgB)
    /\ cfgA.storageType # cfgB.storageType
    /\ cfgA.buildTypes # cfgB.buildTypes
    /\ cfgA.advancedOptions.iOSSupport # cfgB.advancedOptions.iOSSupport
    /\ Len(cmdsA) > 2

categoryCommandPairs(commands) ==
    {<<commands[i].category, trim(commands[i].command)>> : i \in 1..Len(commands)}

\* C2: when two configurations have equal signatures, their extracted test-job
\* commands have the same set of (category, trimmed command) pairs.
C2_EqualSignaturesEqualCommands ==
    (secondSigned /\ sigA = sigB) =>
        categoryCommandPairs(cmdsA) = categoryCommandPairs(cmdsB)

C2_Witness ==
    /\ secondSigned
    /\ cfgA # cfgB
    /\ sigA = sigB
    /\ Cardinality(categoryCommandPairs(cmdsB)) = 8

-----------------------------------------------------------------------------
(* Properties of the matrix generators (Spec) *)

\* Every candidate the nightly loops construct.
nightlyCandidates ==
    {nightlyConfig(p, t, j, c) :
        p \in Range(nightlyPackageManagers), t \in Range(allTestSubsets),
        j \in Range(allJestCombinations), c \in BOOLEAN}

\* commandSignature of each candidate, computed once.
candidateSignature == [c \in nightlyCandidates |-> commandSignature(c)]

keptSignatures == {candidateSignature[entries[i].config] : i \in 1..Len(entries)}

\* An entry is appended only when the candidate's signature is not in seen,
\* and the signature is added to seen at the same time.
appendOnlyUnseen ==
    entries' # entries =>
        /\ curSig \notin seen
        /\ seen' = seen \cup {curSig}
        /\ entries' = Append(entries, curEntry)

\* C3: in generateNightlyMatrix no two kept entries have equal signatures, at
\* every point of the loop and in the result; a candidate is appended only if
\* its signature is not yet in seen; seen is exactly the set of signatures of
\* the kept entries.
C3_NightlySignaturesDistinct ==
    /\ [](/\ Cardinality(keptSignatures) = Len(entries)
          /\ seen = keptSignatures
          /\ pc = "nightly" =>
                Cardinality({candidateSignature[matrix[i].config] : i \in 1..Len(matrix)})
                    = Len(matrix))
    /\ [][appendOnlyUnseen]_vars

C3_Witness ==
    /\ pc = "nightly-loop"
    /\ Len(entries) > 1
    /\ Len(visited) > Len(entries)
    /\ ~loopDone

namesDistinct(m) == \A i, j \in 1..Len(m) : i # j => m[i].name # m[j].name

\* C4: entry names are pairwise distinct in the matrix returned by
\* generatePrMatrix, generateNightlyMatrix and generateEasMatrix (and among
\* the entries the nightly loop has kept so far).
C4_EntryNamesDistinct == namesDistinct(matrix) /\ namesDistinct(entries)

C4_Witness ==
    /\ pc = "nightly"
    /\ Len(matrix) > Len(generatePrMatrix) + Len(generateEasMatrix)
    /\ \E i, j \in 1..Len(matrix) :
          /\ matrix[i].config.tests = matrix[j].config.tests
          /\ matrix[i].config.packageManager = matrix[j].config.packageManager
          /\ matrix[i].name # matrix[j].name

\* Position of a visited candidate in the nesting order: package manager
\* outermost, then static-check subset, then jest combination, then caching
\* with true before false.
positionIn(xs, x) == CHOOSE i \in 1..Len(xs) : xs[i] = x

nestingRank(entry) ==
    << positionIn(<<"yarn", "npm">>, entry.config.packageManager),
       positionIn(allTestSubsets, entry.config.tests),
       positionIn(allJestCombinations,
                  [jestTests       |-> entry.config.advancedOptions.jestTests,
                   rntlTests       |-> entry.config.advancedOptions.rntlTests,
                   renderHookTests |-> entry.config.advancedOptions.renderHookTests]),
       IF entry.config.advancedOptions.caching THEN 1 ELSE 2 >>

rankLess(r, s) ==
    \E k \in 1..Len(r) : r[k] < s[k] /\ \A m \in 1..(k - 1) : r[m] = s[m]

visitedInNestingOrder ==
    \A k \in 1..(Len(visited) - 1) :
        rankLess(nestingRank(visited[k].entry), nestingRank(visited[k + 1].entry))

\* The first n visited candidates without those whose signature an earlier
\* candidate already had, in visiting order.
firstOccurrences(vs, n) ==
    LET numbered == [i \in 1..n |-> [index |-> i, candidate |-> vs[i]]]
        firsts   == SelectSeq(numbered,
                              LAMBDA x : \A k \in 1..(x.index - 1) :
                                            vs[k].sig # x.candidate.sig)
    IN  [j \in 1..Len(firsts) |-> firsts[j].candidate.entry]

\* C5: candidates are visited in the nesting order package manager, static
\* checks, jest combination, caching (true before false); the entry kept for a
\* signature is the first candidate visited with it; entries stay in visiting
\* order, and the returned matrix is that list.
C5_FirstEncounteredWins ==
    /\ visitedInNestingOrder
    /\ entries = firstOccurrences(visited, Len(visited))
    /\ pc = "nightly" => matrix = entries

C5_Witness ==
    /\ pc = "nightly"
    /\ \E k \in 1..Len(visited) :
          /\ \E m \in 1..(k - 1) : visited[m].sig = visited[k].sig
          /\ \A i \in 1..Len(matrix) : matrix[i] # visited[k].entry
    /\ \E k \in 1..(Len(visited) - 1) :
          /\ visited[k].entry.config.advancedOptions.caching
          /\ ~visited[k + 1].entry.config.advancedOptions.caching

-----------------------------------------------------------------------------
(* Properties of the compiled document (SpecCompile) *)

compiled == pc = "compiled"

hasJob(doc, id) == \E i \in 1..Len(doc.jobs) : doc.jobs[i].id = id

jobOf(doc, id) == doc.jobs[CHOOSE i \in 1..Len(doc.jobs) : doc.jobs[i].id = id]

wantsTests(c) ==
    \/ c.tests # <<>>
    \/ c.advancedOptions.jestTests
    \/ c.advancedOptions.rntlTests
    \/ c.advancedOptions.renderHookTests

\* C6: the test job is present exactly when tests is non-empty or one of the
\* jest, rntl, renderHook flags is set; when present it needs check-skip;
\* check-skip is always present.
C6_TestJobPresence ==
    compiled =>
        /\ hasJob(docA, "test") <=> wantsTests(cfgA)
        /\ hasJob(docA, "test") => jobOf(docA, "test").needs = <<"check-skip">>
        /\ hasJob(docA, "check-skip")

C6_Witness ==
    /\ compiled
    /\ cfgA.tests = <<>>
    /\ cfgA.advancedOptions.rntlTests
    /\ ~cfgA.advancedOptions.jestTests
    /\ ~cfgA.advancedOptions.renderHookTests
    /\ hasJob(docA, "test")

buildJobsOf(doc) ==
    SelectSeq(doc.jobs, LAMBDA j : j.id \in {"build-and-release", "build-and-deploy"})

\* C7: the build job needs test when the test job exists and check-skip
\* otherwise.
C7_BuildJobNeeds ==
    compiled =>
        \A i \in 1..Len(buildJobsOf(docA)) :
            buildJobsOf(docA)[i].needs =
                IF hasJob(docA, "test") THEN <<"test">> ELSE <<"check-skip">>

C7_Witness ==
    /\ compiled
    /\ hasJob(docA, "test")
    /\ Len(buildJobsOf(docA)) = 1
    /\ buildJobsOf(docA)[1].needs = <<"test">>
    /\ cfgA.storageType = "google-drive"

\* C8: exactly one of build-and-release and build-and-deploy is present:
\* build-and-release for github-release, build-and-deploy for zoho-drive,
\* google-drive and custom.
C8_ExactlyOneBuildJob ==
    compiled =>
        /\ Len(buildJobsOf(docA)) = 1
        /\ cfgA.storageType = "github-release" => hasJob(docA, "build-and-release")
        /\ cfgA.storageType \in {"zoho-drive", "google-drive", "custom"} =>
              hasJob(docA, "build-and-deploy")

C8_Witness ==
    /\ compiled
    /\ cfgA.storageType = "custom"
    /\ hasJob(docA, "build-and-deploy")
    /\ ~hasJob(docA, "build-and-release")

validStep(step) == truthy(step, "run") # truthy(step, "uses")

validJob(doc, job) ==
    /\ job.runsOn # ""
    /\ Len(job.steps) > 0
    /\ \A k \in 1..Len(job.steps) : validStep(job.steps[k])
    /\ \A n \in 1..Len(job.needs) : hasJob(doc, job.needs[n])

\* C9: for any storage type, non-empty buildTypes, any subset of tests and
\* non-empty triggers, every job has a non-empty runs-on and a non-empty steps
\* list, every step has exactly one of run and uses, and every needs reference
\* names a job of the document.
C9_SchemaValidity ==
    (compiled /\ cfgA.buildTypes # <<>> /\ cfgA.triggers # <<>>) =>
        \A i \in 1..Len(docA.jobs) : validJob(docA, docA.jobs[i])

C9_Witness ==
    /\ compiled
    /\ cfgA.storageType = "zoho-drive"
    /\ Len(cfgA.buildTypes) = 3
    /\ Len(cfgA.triggers) = 2
    /\ Len(cfgA.tests) = 2
    /\ Len(docA.jobs) = 3
    /\ \E k \in 1..Len(docA.jobs[3].steps) : truthy(docA.jobs[3].steps[k], "uses")

-----------------------------------------------------------------------------
(* Extraction of build-job and all commands, and categorisation of a step *)

\* Every storage type and package manager, with no checks at all or with all
\* of them, under each form profile.
ExtractConfigs ==
    {makeConfig(s, f.buildTypes, t.tests, f.triggers, p, t.jestCombo, f.caching, f) :
        s \in Range(StorageTypes),
        t \in {[tests |-> <<>>, jestCombo |-> noJest],
                [tests |-> allStatic, jestCombo |-> allJest]},
        p \in Range(PackageManagers),
        f \in FormProfiles}

\* Step names handed to categorizeCommand.
ProbeLabels ==
    {"Run renderHook Tests", "Run hooks tests", "Test custom hooks",
     "Run Jest Tests", "Run React Native Testing Library Tests",
     "Run TypeScript check", "Run renderHook and ESLint checks",
     "Install dependencies", "Deploy", ""}

\* Command texts handed to categorizeCommand and hasGHAExpressions.
ProbeCommands ==
    {"yarn test", "npm test", "yarn test:hooks", "npm run test:rntl", "npx jest",
     "yarn tsc", "  npm install  \n", "eas build --platform android",
     "echo ${{ secrets.EXPO_TOKEN }}", "echo ${{ github.sha\n}}",
     "curl -d ok ${{ secrets.SLACK_WEBHOOK }}\nyarn test\n", "echo done"}

probeStep == [name |-> stepLabel, run |-> stepCommand]

verifyStep == runStep("Verify EAS CLI installation", "echo \"EAS CLI version:\"\neas --version\n")

InitExtract ==
    /\ GeneratorIdle
    /\ RunnerIdle
    /\ cfgB = baseConfig
    /\ docA = <<>>
    /\ cmdsA = <<>>
    /\ cmdsB = <<>>
    /\ sigA = ""
    /\ sigB = ""
    /\ buildCmds = <<>>
    /\ allCmds = <<>>
    /\ options = noOptions
    /\ category = ""
    /\ \/ /\ pc = "config"
          /\ cfgA \in ExtractConfigs
          /\ stepLabel = ""
          /\ stepCommand = ""
       \/ /\ pc = "step"
          /\ cfgA = baseConfig
          /\ stepLabel \in ProbeLabels
          /\ stepCommand \in ProbeCommands

\* extractBuildJobCommands(config, { includeBuildCommands })
ExtractBuildJob ==
    \E include \in BOOLEAN :
        LET opts == [noOptions EXCEPT !.includeBuildCommands = include]
        IN  /\ pc = "config"
            /\ docA' = generateWorkflowYaml(cfgA)
            /\ buildCmds' = extractBuildJobCommands(cfgA, opts)
            /\ options' = opts
            /\ pc' = "build-extracted"
            /\ UNCHANGED <<cfgA, cfgB, cmdsA, cmdsB, sigA, sigB>>
            /\ UNCHANGED <<allCmds, stepLabel, stepCommand, category>>
            /\ UNCHANGED generatorVars
            /\ UNCHANGED runnerVars

\* extractAllCommands(config, { includeGHAExpressions, includeBuildCommands })
ExtractAll ==
    \E includeBuild \in BOOLEAN, includeGHA \in BOOLEAN :
        LET opts == [includeBuildCommands |-> includeBuild,
                     includeGHAExpressions |-> includeGHA]
        IN  /\ pc = "config"
            /\ docA' = generateWorkflowYaml(cfgA)
            /\ cmdsA' = extractTestJobCommands(cfgA)
            /\ buildCmds' = extractBuildJobCommands(cfgA, opts)
            /\ allCmds' = extractAllCommands(cfgA, opts)
            /\ options' = opts
            /\ pc' = "all-extracted"
            /\ UNCHANGED <<cfgA, cfgB, cmdsB, sigA, sigB>>
            /\ UNCHANGED <<stepLabel, stepCommand, category>>
            /\ UNCHANGED generatorVars
            /\ UNCHANGED runnerVars

\* categorizeCommand(step.name || "", step.run)
Categorize ==
    /\ pc = "step"
    /\ category' = categorizeCommand(stepLabel, stepCommand)
    /\ pc' = "categorized"
    /\ UNCHANGED <<buildCmds, allCmds, options, stepLabel, stepCommand>>
    /\ UNCHANGED compilerVars
    /\ UNCHANGED generatorVars
    /\ UNCHANGED runnerVars

\* A parsed workflow that holds the step: it is the only step of the test job
\* and the second of the two steps of the build job.
stepDocument ==
    [jobs |-> << [id |-> "test", steps |-> << probeStep >>],
                 [id |-> "build-and-release", steps |-> << verifyStep, probeStep >>] >>]

\* extractAllCommands(config, { includeGHAExpressions, includeBuildCommands })
\* from yaml.load on, for a workflow that parses to stepDocument.
MergeStepCommands ==
    \E includeBuild \in BOOLEAN, includeGHA \in BOOLEAN :
        LET opts == [includeBuildCommands |-> includeBuild,
                     includeGHAExpressions |-> includeGHA]
            testCommands  == testJobCommandsIn(stepDocument)
            buildCommands == buildJobCommandsIn(stepDocument, opts)
        IN  /\ pc = "categorized"
            /\ docA' = stepDocument
            /\ cmdsA' = testCommands
            /\ buildCmds' = buildCommands
            /\ allCmds' = mergeCommands(testCommands, buildCommands, opts)
            /\ options' = opts
            /\ pc' = "merged"
            /\ UNCHANGED <<cfgA, cfgB, cmdsB, sigA, sigB>>
            /\ UNCHANGED <<stepLabel, stepCommand, category>>
            /\ UNCHANGED generatorVars
            /\ UNCHANGED runnerVars

NextExtract ==
    \/ ExtractBuildJob
    \/ ExtractAll
    \/ Categorize
    \/ MergeStepCommands

SpecExtract == InitExtract /\ [][NextExtract]_vars

-----------------------------------------------------------------------------
(* Properties of the extracted commands *)

countOf(commands, cat) == Cardinality({i \in 1..Len(commands) : commands[i].category = cat})

expectedCount(cond) == IF cond THEN 1 ELSE 0

\* C11: extractTestJobCommands returns the empty list when there is no test
\* job; otherwise exactly one install command, one cache-dir command iff
\* caching, one typecheck iff typescript, one lint iff eslint, one format iff
\* prettier, one jest iff jestTests, one rntl iff rntlTests, one hooks iff
\* renderHookTests, and nothing else (8 commands with everything enabled).
C11_TestJobCommandCounts ==
    pc # "config" =>
        IF ~wantsTests(cfgA) THEN cmdsA = <<>>
        ELSE /\ countOf(cmdsA, "install") = 1
             /\ countOf(cmdsA, "cache-dir") = expectedCount(cfgA.advancedOptions.caching)
             /\ countOf(cmdsA, "typecheck") = expectedCount("typescript" \in Range(cfgA.tests))
             /\ countOf(cmdsA, "lint") = expectedCount("eslint" \in Range(cfgA.tests))
             /\ countOf(cmdsA, "format") = expectedCount("prettier" \in Range(cfgA.tests))
             /\ countOf(cmdsA, "jest") = expectedCount(cfgA.advancedOptions.jestTests)
             /\ countOf(cmdsA, "rntl") = expectedCount(cfgA.advancedOptions.rntlTests)
             /\ countOf(cmdsA, "hooks") = expectedCount(cfgA.advancedOptions.renderHookTests)
             /\ Len(cmdsA) = 1 + expectedCount(cfgA.advancedOptions.caching)
                               + Len(cfgA.tests)
                               + expectedCount(cfgA.advancedOptions.jestTests)
                               + expectedCount(cfgA.advancedOptions.rntlTests)
                               + expectedCount(cfgA.advancedOptions.renderHookTests)

C11_Witness ==
    /\ pc = "signed"
    /\ cfgA.packageManager = "pnpm"
    /\ Len(cmdsA) = 8
    /\ countOf(cmdsA, "hooks") = 1

\* The run texts of the build job's run steps, in step order.
buildRunSteps(doc) ==
    SelectSeq(buildJobsOf(doc)[1].steps, LAMBDA st : truthy(st, "run"))

isBuildOrOther(step) == categorizeCommand(nameOr(step, ""), step.run) \in {"build", "other"}

commandTexts(commands) == [i \in 1..Len(commands) |-> commands[i].command]

runTexts(steps) == [i \in 1..Len(steps) |-> steps[i].run]

\* C12: without includeBuildCommands, extractBuildJobCommands returns no
\* command of category build or other and returns every other run step of the
\* build job in step order; with includeBuildCommands it returns every run
\* step of the build job.
C12_BuildJobCommandsFiltered ==
    pc = "build-extracted" =>
        IF options.includeBuildCommands
        THEN commandTexts(buildCmds) = runTexts(buildRunSteps(docA))
        ELSE /\ \A i \in 1..Len(buildCmds) : buildCmds[i].category \notin {"build", "other"}
             /\ commandTexts(buildCmds) =
                    runTexts(SelectSeq(buildRunSteps(docA), LAMBDA st : ~isBuildOrOther(st)))

C12_Witness ==
    /\ pc = "build-extracted"
    /\ ~options.includeBuildCommands
    /\ Len(buildCmds) > 1
    /\ Len(buildCmds) < Len(buildRunSteps(docA))
    /\ Len(cfgA.buildTypes) = 3

\* C13: extractAllCommands returns the test-job commands followed by the
\* build-job commands; by default no returned command has hasGHAExpressions
\* set and the flagged ones are the only ones dropped; with
\* includeGHAExpressions the result is the whole concatenation.
C13_AllCommandsMerged ==
    pc \in {"all-extracted", "merged"} =>
        IF options.includeGHAExpressions
        THEN allCmds = cmdsA \o buildCmds
        ELSE /\ \A i \in 1..Len(allCmds) : ~allCmds[i].hasGHAExpressions
             /\ allCmds = SelectSeq(cmdsA, LAMBDA cmd : ~cmd.hasGHAExpressions)
                          \o SelectSeq(buildCmds, LAMBDA cmd : ~cmd.hasGHAExpressions)

C13_Witness ==
    /\ pc = "merged"
    /\ ~options.includeGHAExpressions
    /\ cmdsA[1].hasGHAExpressions
    /\ Len(allCmds) = 1

labelMentionsHooks == includes(toLowerCase(stepLabel), "hook")

\* The command text matches the generic test pattern and nothing else.
genericTestCommand == stepCommand \in {"yarn test", "npm test"}

\* C14 as stated: a step whose label mentions hooks is categorised hooks even
\* when its command text matches a generic test pattern.
C14_HooksLabelWins ==
    (pc \in {"categorized", "merged"} /\ labelMentionsHooks /\ genericTestCommand)
        => category = "hooks"

-----------------------------------------------------------------------------
(* Properties of the returned matrices *)

returned(mode) == pc = mode

hasNoTests(config) ==
    /\ config.tests = <<>>
    /\ ~config.advancedOptions.jestTests
    /\ ~config.advancedOptions.rntlTests
    /\ ~config.advancedOptions.renderHookTests

entriesWhere(m, pkgMgr) ==
    {i \in 1..Len(m) : m[i].config.packageManager = pkgMgr}

noTestEntries(m, pkgMgr) ==
    {i \in entriesWhere(m, pkgMgr) : hasNoTests(m[i].config)}

\* C15: the matrix returned by generateNightlyMatrix has strictly more than
\* 100 and strictly fewer than 500 entries.
C15_NightlyMatrixSize ==
    returned("nightly") => (Len(matrix) > 100 /\ Len(matrix) < 500)

C15_Witness ==
    /\ returned("nightly")
    /\ Len(matrix) = Len(visited) - 1
    /\ Len(visited) > 200

\* C16 as stated: for every enumerated package manager the configuration with
\* no checks and no jest flags is kept exactly once, as its caching-on variant.
C16_NoTestsKeptPerPackageManager ==
    returned("nightly") =>
        \A p \in Range(nightlyPackageManagers) :
            /\ Cardinality(noTestEntries(matrix, p)) = 1
            /\ \A i \in noTestEntries(matrix, p) : matrix[i].config.advancedOptions.caching

\* C16 amended: the configuration with no checks and no jest flags is kept
\* exactly once in the whole matrix, for yarn (the first package manager
\* enumerated) and with caching on; for npm it is visited and dropped, its
\* signature being the same empty one.
C16_NoTestsKeptOnce ==
    returned("nightly") =>
        /\ Cardinality(noTestEntries(matrix, "yarn")) = 1
        /\ \A i \in noTestEntries(matrix, "yarn") : matrix[i].config.advancedOptions.caching
        /\ noTestEntries(matrix, "npm") = {}
        /\ \E k \in 1..Len(visited) :
              /\ visited[k].entry.config.packageManager = "npm"
              /\ hasNoTests(visited[k].entry.config)
              /\ visited[k].sig = ""

C16_Witness ==
    /\ returned("nightly")
    /\ matrix[1].name = "yarn-no-tests"
    /\ \A i \in 1..Len(matrix) : matrix[i].name # "npm-no-tests"
    /\ \E k \in 1..Len(visited) : visited[k].entry.name = "npm-no-tests"

\* C17 as stated: generateEasMatrix returns exactly 9 entries, 3 for each of
\* yarn, npm and pnpm, each with a buildTypes list of length 1.
C17_EasNineEntries ==
    returned("eas") =>
        /\ Len(matrix) = 9
        /\ \A p \in {"yarn", "npm", "pnpm"} : Cardinality(entriesWhere(matrix, p)) = 3
        /\ \A i \in 1..Len(matrix) : Len(matrix[i].config.buildTypes) = 1

\* C18 as stated: the entries returned by generateEasMatrix have pairwise
\* distinct command signatures.
C18_EasSignaturesDistinct ==
    returned("eas") =>
        \A i, j \in 1..Len(matrix) :
            i # j => commandSignature(matrix[i].config) # commandSignature(matrix[j].config)

\* C18 amended: every entry returned by generateEasMatrix has the empty
\* command signature (none has a test job), so the signatures all coincide;
\* the entries differ pairwise in package manager or build type.
C18_EasSignaturesAllEmpty ==
    returned("eas") =>
        /\ \A i \in 1..Len(matrix) : commandSignature(matrix[i].config) = ""
        /\ \A i, j \in 1..Len(matrix) :
              i # j => \/ matrix[i].config.packageManager # matrix[j].config.packageManager
                       \/ matrix[i].config.buildTypes # matrix[j].config.buildTypes

C18_Witness ==
    /\ returned("eas")
    /\ Len(matrix) > 1
    /\ matrix[1].config.packageManager # matrix[Len(matrix)].config.packageManager
    /\ matrix[1].config.buildTypes # matrix[Len(matrix)].config.buildTypes

\* C19 as stated: the matrices returned by generatePrMatrix and by
\* generateNightlyMatrix each hold an entry for yarn, for npm and for pnpm.
C19_AllPackageManagersCovered ==
    (returned("pr") \/ returned("nightly")) =>
        \A p \in {"yarn", "npm", "pnpm"} : entriesWhere(matrix, p) # {}

\* C20 as stated: generatePrMatrix returns exactly 20 entries.
C20_PrTwentyEntries ==
    returned("pr") => Len(matrix) = 20

fixtureExpected(pkgMgr) ==
    IF pkgMgr = "npm" THEN "npm-app"
    ELSE IF pkgMgr = "pnpm" THEN "pnpm-app"
    ELSE "yarn-app"

fixturesMatch(m) ==
    \A i \in 1..Len(m) : m[i].fixture = fixtureExpected(m[i].config.packageManager)

\* C21: in every matrix returned by generatePrMatrix, generateNightlyMatrix and
\* generateEasMatrix (and in the entries collected so far by the nightly
\* loops) the fixture of an entry is npm-app when its package manager is npm,
\* pnpm-app when it is pnpm and yarn-app otherwise.
C21_FixtureFollowsPackageManager ==
    /\ fixturesMatch(matrix)
    /\ fixturesMatch(entries)

C21_Witness ==
    /\ returned("nightly")
    /\ \E i, j \in 1..Len(matrix) :
          /\ matrix[i].config.packageManager = "npm"
          /\ matrix[i].fixture = "npm-app"
          /\ matrix[j].config.packageManager = "yarn"
          /\ matrix[j].fixture = "yarn-app"

-----------------------------------------------------------------------------
(* Properties of the environment block (SpecCompile) *)

zohoSecretNames ==
    {"RCLONE_CONFIG_ZOHODRIVE_TYPE", "RCLONE_CONFIG_ZOHODRIVE_TOKEN",
     "RCLONE_CONFIG_ZOHODRIVE_DRIVE_ID"}

gdriveSecretNames ==
    {"RCLONE_CONFIG_GDRIVE_TYPE", "RCLONE_CONFIG_GDRIVE_TOKEN",
     "RCLONE_CONFIG_GDRIVE_ROOT_FOLDER_ID"}

customSecretNames == {"CLOUD_STORAGE_TYPE", "CLOUD_STORAGE_TOKEN", "CLOUD_STORAGE_ROOT_ID"}

secretNamesOf(storageType) ==
    IF storageType = "zoho-drive" THEN zohoSecretNames
    ELSE IF storageType = "google-drive" THEN gdriveSecretNames
    ELSE IF storageType = "custom" THEN customSecretNames
    ELSE {}

envNames(doc) == {doc.env[i].name : i \in 1..Len(doc.env)}

\* C22: the environment block of the compiled document holds the secret
\* names of the selected storage type (none for github-release, the three
\* RCLONE_CONFIG_ZOHODRIVE_* names for zoho-drive, the three
\* RCLONE_CONFIG_GDRIVE_* names for google-drive, the three CLOUD_STORAGE_*
\* names for custom) and no secret name of another storage type.
C22_StorageSecretsExact ==
    compiled =>
        envNames(docA) \cap (zohoSecretNames \cup gdriveSecretNames \cup customSecretNames)
            = secretNamesOf(cfgA.storageType)

C22_Witness ==
    /\ compiled
    /\ cfgA.storageType = "custom"
    /\ cfgA.advancedOptions.iOSSupport
    /\ customSecretNames \subseteq envNames(docA)
    /\ "EXPO_APPLE_ID" \in envNames(docA)
    /\ "RCLONE_CONFIG_GDRIVE_TYPE" \notin envNames(docA)

-----------------------------------------------------------------------------
(* Running command lists: runCommands called on its own, and run-single *)

MaxCommands == 3

\* Commands handed to runCommands: a test command, a command of two lines, a
\* build command, a command with a GitHub Actions expression, and a build
\* command with one.
RunnerProbes ==
    {extractedCommand(runStep("Run Jest Tests", "yarn test")),
     extractedCommand(runStep("Install dependencies",
         "npm install\nnpm install -g eas-cli@latest\n")),
     extractedCommand(runStep("Build Android APK",
         "eas build --platform android --profile production-apk --local --non-interactive")),
     extractedCommand(runStep("Notify", "echo ${{ secrets.EXPO_TOKEN }}")),
     extractedCommand(runStep("Build Android",
         "eas build --platform android --profile ${{ matrix.profile }}"))}

ProbeCommandLists == UNION {[1..n -> RunnerProbes] : n \in 0..MaxCommands}

ExecOutcomes == {returnedOutcome, failedOutcome(2), killedOutcome}

\* The files under configs/: the two matrix files the generator has written,
\* with what JSON.parse makes of them, and a file that does not hold JSON.
matrixFilesOnDisk ==
    [f \in {resolve(integrationDir, "configs/pr-matrix.json"),
            resolve(integrationDir, "configs/eas-matrix.json"),
            resolve(integrationDir, "configs/broken.json")} |->
        IF f = resolve(integrationDir, "configs/pr-matrix.json")
        THEN [json |-> TRUE, value |-> generatePrMatrix]
        ELSE IF f = resolve(integrationDir, "configs/eas-matrix.json")
        THEN [json |-> TRUE, value |-> generateEasMatrix]
        ELSE [json |-> FALSE, value |-> <<>>]]

fixtureDirsOnDisk ==
    {resolve(integrationDir, "fixtures/yarn-app"),
     resolve(integrationDir, "fixtures/npm-app")}

\* Values of --config-index: the integers around the matrix sizes, and text
\* that parseInt turns into NaN or cuts short.
ConfigIndexArguments ==
    {numberToString(i) : i \in -1..(Len(generatePrMatrix) + 1)} \cup {"abc", "2nd"}

\* The PR entries with all eight test commands (npm-all-tests and
\* yarn-all-tests), by their --config-index.
AllTestsIndices == {"8", "9"}

\* Command lines of run-single. --skip-build defaults to true and cannot be
\* turned off. Continuing past failures through all eleven commands of an
\* all-tests PR entry with its build job (3^11 outcome sequences each) is
\* left out for size; those entries run with either option alone.
CliInputs ==
    {c \in [matrixFile : {"configs/pr-matrix.json", "configs/eas-matrix.json",
                          "configs/missing.json", "configs/broken.json"},
            fixtureDir : {"fixtures/yarn-app", "./fixtures//npm-app/",
                          "fixtures/missing-app"},
            configIndex : ConfigIndexArguments,
            continueOnError : BOOLEAN,
            includeBuildJob : BOOLEAN,
            skipBuild : {TRUE}] :
        ~(/\ c.matrixFile = "configs/pr-matrix.json"
          /\ c.configIndex \in AllTestsIndices
          /\ c.includeBuildJob
          /\ c.continueOnError)}

calledFromCli == cli # noCli

InitRun ==
    /\ GeneratorIdle
    /\ CompilerIdle
    /\ ExtractIdle
    /\ cmdIdx = 0
    /\ results = <<>>
    /\ tmpDir = "none"
    /\ execLog = <<>>
    /\ processExit = -1
    /\ reported = ""
    /\ \/ /\ pc = "run-call"
          /\ cli = noCli
          /\ cmdList \in ProbeCommandLists
          /\ runnerOptions \in [continueOnError : BOOLEAN, skipBuild : BOOLEAN]
       \/ /\ pc = "cli"
          /\ cli \in CliInputs
          /\ cmdList = <<>>
          /\ runnerOptions = noRunnerOptions

\* run-single lines 39-66: the three tests; a failing one writes its message
\* and exits with code 1. JSON.parse throwing at line 56 is not caught: the
\* process ends with the exit code of an uncaught exception.
ValidateInputs ==
    LET message == validationError(cli, matrixFilesOnDisk, fixtureDirsOnDisk)
    IN  /\ pc = "cli"
        /\ reported' = message
        /\ IF message # ""
           THEN /\ processExit' = 1
                /\ pc' = "exited"
           ELSE IF parseThrows(cli, matrixFilesOnDisk, fixtureDirsOnDisk)
           THEN /\ processExit' = 1
                /\ pc' = "crashed"
           ELSE /\ processExit' = processExit
                /\ pc' = "validated"
        /\ UNCHANGED <<cmdList, runnerOptions, cmdIdx, results, tmpDir, execLog, cli>>
        /\ UNCHANGED compilerVars
        /\ UNCHANGED generatorVars
        /\ UNCHANGED extractVars

\* run-single lines 68-93: the entry is read, its commands are extracted and
\* runCommands is called with them. With an index that is NaN, matrix[index]
\* is undefined and entry.name at line 69 throws, which is not caught.
ExtractCommands ==
    LET index     == parseInt(cli.configIndex)
        loaded    == matrixFilesOnDisk[resolve(integrationDir, cli.matrixFile)].value
        entry     == loaded[index.value + 1]
        testCmds  == extractTestJobCommands(entry.config)
        buildOnes == IF cli.includeBuildJob
                     THEN extractBuildJobCommands(entry.config, noOptions)
                     ELSE <<>>
    IN  /\ pc = "validated"
        /\ IF index.nan
           THEN /\ processExit' = 1
                /\ pc' = "crashed"
                /\ UNCHANGED <<cfgA, cmdsA, buildCmds, cmdList, runnerOptions>>
           ELSE /\ cfgA' = entry.config
                /\ cmdsA' = testCmds
                /\ buildCmds' = buildOnes
                /\ cmdList' = testCmds \o buildOnes
                /\ runnerOptions' = [continueOnError |-> cli.continueOnError,
                                     skipBuild |-> cli.skipBuild]
                /\ pc' = "run-call"
                /\ processExit' = processExit
        /\ UNCHANGED <<cfgB, docA, cmdsB, sigA, sigB>>
        /\ UNCHANGED <<allCmds, options, stepLabel, stepCommand, category>>
        /\ UNCHANGED <<cmdIdx, results, tmpDir, execLog, cli, reported>>
        /\ UNCHANGED generatorVars

\* runCommands lines 36-47: mkdtempSync makes the directory, then the three
\* writeFileSync calls create the files in it. mkdtempSync (or path.resolve
\* before it) may throw, and no directory was made; a write may throw, and
\* the directory is there. Either error leaves runCommands.
CreateTmpDir ==
    \E setup \in {"written", "write-throws", "mkdtemp-throws"} :
        /\ pc = "run-call"
        /\ tmpDir' = IF setup = "mkdtemp-throws" THEN "none" ELSE "created"
        /\ results' = <<>>
        /\ IF setup = "written"
           THEN /\ cmdIdx' = 1
                /\ pc' = "run-loop"
           ELSE /\ cmdIdx' = cmdIdx
                /\ pc' = "run-thrown"
        /\ UNCHANGED <<cmdList, runnerOptions, execLog, cli, processExit, reported>>
        /\ UNCHANGED compilerVars
        /\ UNCHANGED generatorVars
        /\ UNCHANGED extractVars

\* Loop body, lines 50-80: the command is skipped.
SkipCommand ==
    /\ pc = "run-loop"
    /\ cmdIdx <= Len(cmdList)
    /\ skipReasonOf(cmdList[cmdIdx], runnerOptions) # ""
    /\ results' = Append(results,
                         skippedResult(cmdList[cmdIdx],
                                       skipReasonOf(cmdList[cmdIdx], runnerOptions)))
    /\ cmdIdx' = cmdIdx + 1
    /\ UNCHANGED <<cmdList, runnerOptions, tmpDir, execLog, cli, processExit, reported, pc>>
    /\ UNCHANGED compilerVars
    /\ UNCHANGED generatorVars
    /\ UNCHANGED extractVars

\* Loop body, lines 82-145: execCommand is the command itself, or bash -c
\* with the JSON text of the command when it holds a line break; execCommand
\* is handed to execSync (cwd the fixture directory, the three GITHUB_* file
\* names in the environment), the result is pushed with the command as it
\* was extracted, and the loop is left after a failure unless
\* continueOnError.
ExecuteCommand ==
    \E outcome \in ExecOutcomes :
        LET cmd         == cmdList[cmdIdx]
            execCommand == execCommandOf(cmd)
            exitCode    == exitCodeOf(outcome)
        IN  /\ pc = "run-loop"
            /\ cmdIdx <= Len(cmdList)
            /\ skipReasonOf(cmd, runnerOptions) = ""
            /\ execLog' = Append(execLog, [index |-> cmdIdx, command |-> execCommand,
                                           outcome |-> outcome])
            /\ results' = Append(results, executedResult(cmd, exitCode))
            /\ IF breaksAfter(exitCode, runnerOptions)
               THEN /\ cmdIdx' = cmdIdx
                    /\ pc' = "run-break"
               ELSE /\ cmdIdx' = cmdIdx + 1
                    /\ pc' = "run-loop"
            /\ UNCHANGED <<cmdList, runnerOptions, tmpDir, cli, processExit, reported>>
            /\ UNCHANGED compilerVars
            /\ UNCHANGED generatorVars
            /\ UNCHANGED extractVars

\* Lines 148-155, after the loop has ended or was left: rmSync removes the
\* directory, or throws and the error is ignored; the results are returned.
ReturnResults ==
    \E removed \in BOOLEAN :
        /\ \/ pc = "run-loop" /\ cmdIdx > Len(cmdList)
           \/ pc = "run-break"
        /\ tmpDir' = IF removed THEN "removed" ELSE "created"
        /\ pc' = "run-returned"
        /\ UNCHANGED <<cmdList, runnerOptions, cmdIdx, results, execLog, cli, processExit, reported>>
        /\ UNCHANGED compilerVars
        /\ UNCHANGED generatorVars
        /\ UNCHANGED extractVars

\* run-single lines 95-99: process.exit(allPassed(results) ? 0 : 1)
ExitWithResults ==
    /\ pc = "run-returned"
    /\ calledFromCli
    /\ processExit' = IF allPassed(results) THEN 0 ELSE 1
    /\ pc' = "exited"
    /\ UNCHANGED <<cmdList, runnerOptions, cmdIdx, results, tmpDir, execLog, cli, reported>>
    /\ UNCHANGED compilerVars
    /\ UNCHANGED generatorVars
    /\ UNCHANGED extractVars

\* An error thrown out of runCommands is not caught by run-single (lines
\* 88-93): the process ends with the exit code of an uncaught exception.
CrashOnThrow ==
    /\ pc = "run-thrown"
    /\ calledFromCli
    /\ processExit' = 1
    /\ pc' = "crashed"
    /\ UNCHANGED <<cmdList, runnerOptions, cmdIdx, results, tmpDir, execLog, cli, reported>>
    /\ UNCHANGED compilerVars
    /\ UNCHANGED generatorVars
    /\ UNCHANGED extractVars

NextRun ==
    \/ ValidateInputs
    \/ ExtractCommands
    \/ CreateTmpDir
    \/ SkipCommand
    \/ ExecuteCommand
    \/ ReturnResults
    \/ ExitWithResults
    \/ CrashOnThrow

SpecRun == InitRun /\ [][NextRun]_vars

-----------------------------------------------------------------------------
(* Properties of runCommands and run-single (SpecRun) *)

runReturned == pc \in {"run-returned", "exited"}

\* Every command that reaches runCommands: the probes, and the commands of
\* the entries of the two matrix files, with and without the build job.
runnableCommands ==
    RunnerProbes \cup
    UNION {Range(extractTestJobCommands(e.config)
                    \o extractBuildJobCommands(e.config, noOptions)) :
              e \in Range(generatePrMatrix) \cup Range(generateEasMatrix)}

\* For each of them the text handed to execSync and the script that runs,
\* computed once.
callTable ==
    [c \in runnableCommands |->
        [execCommand |-> execCommandOf(c), script |-> bashScriptOf(c)]]

\* The positions of cmdList that were handed to execSync.
executedIndices == {execLog[k].index : k \in 1..Len(execLog)}

failedAt(i) == ~results[i].skipped /\ results[i].exitCode # 0

describes(result, cmd) ==
    /\ result.stepName = cmd.stepName
    /\ result.command = cmd.command
    /\ result.category = cmd.category

\* C23: runCommands takes the commands in list order and result i describes
\* command i; the calls of execSync are made in list order, each with the
\* execCommand of the command at its position (the command itself, or its
\* bash -c form when it holds a line break); without continueOnError nothing
\* is executed or reported after the first executed command with a non-zero
\* exit code, so the results are the prefix that ends at that command; with
\* continueOnError every command gets exactly one result.
C23_OrderAndHalt ==
    /\ Len(results) <= Len(cmdList)
    /\ \A i \in 1..Len(results) : describes(results[i], cmdList[i])
    /\ \A k \in 1..Len(execLog) :
          /\ execLog[k].index <= Len(results)
          /\ execLog[k].command = callTable[cmdList[execLog[k].index]].execCommand
          /\ \A l \in 1..Len(execLog) : k < l => execLog[k].index < execLog[l].index
    /\ ~runnerOptions.continueOnError =>
          \A i \in 1..Len(results) : failedAt(i) => i = Len(results)
    /\ runReturned =>
          IF runnerOptions.continueOnError
          THEN Len(results) = Len(cmdList)
          ELSE \/ Len(results) = Len(cmdList)
               \/ results # <<>> /\ failedAt(Len(results))

C23_Witness ==
    /\ pc = "run-returned"
    /\ ~runnerOptions.continueOnError
    /\ Len(cmdList) = 3
    /\ Len(results) = 2
    /\ ~results[1].skipped
    /\ results[1].exitCode = 0
    /\ failedAt(2)
    /\ executedIndices = {1, 2}

\* The skip rule as the claim words it.
mustSkip(cmd, opts) ==
    \/ opts.skipBuild /\ cmd.category = "build"
    \/ cmd.hasGHAExpressions

withoutSkipped(rs) == SelectSeq(rs, LAMBDA r : ~r.skipped)

\* C24: a command is skipped, and never executed, exactly when skipBuild is
\* set and its category is build, or it has hasGHAExpressions; a skipped
\* result has skipped = true and exit code 0, the loop goes on after it, and
\* allPassed gives the same answer with the skipped results left out.
C24_SkipRule ==
    /\ \A i \in 1..Len(results) :
          /\ results[i].skipped = mustSkip(cmdList[i], runnerOptions)
          /\ results[i].skipped => (results[i].exitCode = 0 /\ i \notin executedIndices)
          /\ ~results[i].skipped => i \in executedIndices
    /\ pc = "run-break" => ~results[Len(results)].skipped
    /\ allPassed(results) = allPassed(withoutSkipped(results))
    /\ withoutSkipped(results) = <<>> => allPassed(results)

C24_Witness ==
    /\ pc = "run-returned"
    /\ runnerOptions.skipBuild
    /\ Len(results) = 3
    /\ results[1].skipped
    /\ results[1].category = "build"
    /\ ~cmdList[1].hasGHAExpressions
    /\ results[2].skipped
    /\ results[2].category = "other"
    /\ ~results[3].skipped
    /\ allPassed(results)

runFinished == pc \in {"run-returned", "run-thrown", "exited", "crashed"}

\* C25 as stated: the temporary directory that runCommands creates is removed
\* on every exit path of runCommands: normal completion, early halt after a
\* failed command, and an error thrown out of runCommands.
C25_TmpDirRemovedOnEveryExit ==
    runFinished => tmpDir # "created"

\* The execCommand of command i was handed to execSync and execSync returned
\* without error.
ranCleanly(i) ==
    \E k \in 1..Len(execLog) :
        /\ execLog[k].index = i
        /\ execLog[k].command = callTable[cmdList[i]].execCommand
        /\ ~execLog[k].outcome.raised

everyUnskippedRanCleanly ==
    \A i \in 1..Len(cmdList) : ~mustSkip(cmdList[i], runnerOptions) => ranCleanly(i)

\* Command i was executed as it was extracted, and exited with code 0: the
\* script that ran for it is the text of the command.
executedAsExtracted(i) ==
    /\ ranCleanly(i)
    /\ callTable[cmdList[i]].script = cmdList[i].command

everyUnskippedExecutedAsExtracted ==
    \A i \in 1..Len(cmdList) :
        ~mustSkip(cmdList[i], runnerOptions) => executedAsExtracted(i)

\* The script that runs is the command exactly for the commands of one line.
wrappedScriptsDiffer ==
    \A c \in runnableCommands :
        (callTable[c].script = c.command) <=> ~includes(c.command, "\n")

\* run-single reached process.exit at line 99.
exitedAfterRun == pc = "exited" /\ reported = ""

\* run-single ended by the error that runCommands threw: it crashed, and
\* neither JSON.parse (line 56) nor entry.name (line 69) was the cause.
crashedInRun ==
    /\ pc = "crashed"
    /\ ~parseThrows(cli, matrixFilesOnDisk, fixtureDirsOnDisk)
    /\ ~parseInt(cli.configIndex).nan

\* run-single chose an entry, extracted its commands and has ended.
entryRunEnded == exitedAfterRun \/ crashedInRun

invalidInputs(c) ==
    LET matrixFile == resolve(integrationDir, c.matrixFile)
        index      == parseInt(c.configIndex)
    IN  \/ matrixFile \notin DOMAIN matrixFilesOnDisk
        \/ resolve(integrationDir, c.fixtureDir) \notin fixtureDirsOnDisk
        \/ /\ matrixFile \in DOMAIN matrixFilesOnDisk
           /\ matrixFilesOnDisk[matrixFile].json
           /\ ~index.nan
           /\ \/ index.value < 0
              \/ index.value >= Len(matrixFilesOnDisk[matrixFile].value)

\* C27: given an index below 0 or at least the matrix length, or a matrix file
\* or fixture directory that does not exist, run-single reports the error and
\* exits with a non-zero code before it extracts or executes any command.
C27_InvalidInputsRejected ==
    (calledFromCli /\ invalidInputs(cli) /\ pc # "cli") =>
        /\ pc = "exited"
        /\ processExit # 0
        /\ processExit # -1
        /\ reported # ""
        /\ cmdsA = <<>>
        /\ cmdList = <<>>
        /\ execLog = <<>>
        /\ tmpDir = "none"

C27_Witness ==
    /\ pc = "exited"
    /\ cli.matrixFile = "configs/eas-matrix.json"
    /\ cli.fixtureDir = "fixtures/yarn-app"
    /\ parseInt(cli.configIndex).value = Len(generateEasMatrix)
    /\ processExit = 1
    /\ reported = "Config index 6 out of range (0-5)"

\* C30: an executed command whose execution raises an error is recorded with
\* a non-zero exit code, the status of the error when it has a non-zero one
\* and 1 when it has none, so allPassed is false; an execution that returns
\* without error is recorded with exit code 0.
C30_RaisedMeansNonZero ==
    \A k \in 1..Len(execLog) :
        LET outcome == execLog[k].outcome
            result  == results[execLog[k].index]
        IN  /\ ~result.skipped
            /\ IF outcome.raised
               THEN /\ result.exitCode # 0
                    /\ ~outcome.hasStatus => result.exitCode = 1
                    /\ (outcome.hasStatus /\ outcome.status # 0) =>
                          result.exitCode = outcome.status
                    /\ ~allPassed(results)
               ELSE result.exitCode = 0

C30_Witness ==
    /\ pc = "run-returned"
    /\ runnerOptions.continueOnError
    /\ Len(execLog) = 3
    /\ execLog[1].outcome = killedOutcome
    /\ results[execLog[1].index].exitCode = 1
    /\ execLog[2].outcome = failedOutcome(2)
    /\ results[execLog[2].index].exitCode = 2
    /\ execLog[3].outcome = returnedOutcome
    /\ results[execLog[3].index].exitCode = 0

-----------------------------------------------------------------------------
(* Signatures of reordered configurations and of reordered command lists *)

\* Every package manager and static-check subset, with no or all jest flags.
OrderConfigs ==
    {nightlyConfig(p, allTestSubsets[t], j, TRUE) :
        p \in Range(PackageManagers), t \in 1..Len(allTestSubsets), j \in {noJest, allJest}}

\* Every order in which the items of xs can be listed.
arrangements(xs) ==
    {[i \in 1..Len(xs) |-> xs[f[i]]] :
        f \in {g \in [1..Len(xs) -> 1..Len(xs)] :
                  \A i, j \in 1..Len(xs) : i # j => g[i] # g[j]}}

rotate(xs, k) == SubSeq(xs, k + 1, Len(xs)) \o SubSeq(xs, 1, k)

reverse(xs) == [i \in 1..Len(xs) |-> xs[Len(xs) + 1 - i]]

\* White space put around a command text.
Paddings == {"", " ", "\n  "}

padded(cmds, pad) ==
    [i \in 1..Len(cmds) |-> [cmds[i] EXCEPT !.command = pad \o cmds[i].command \o pad]]

\* commandSignature after the extraction: map, sort, join.
signatureOfCommands(cmds) ==
    join(sort([i \in 1..Len(cmds) |-> cmds[i].category \o ":" \o trim(cmds[i].command)]),
         "|")

InitOrder ==
    /\ pc = "config"
    /\ cfgA \in OrderConfigs
    /\ cfgB = cfgA
    /\ docA = <<>>
    /\ cmdsA = <<>>
    /\ cmdsB = <<>>
    /\ sigA = ""
    /\ sigB = ""
    /\ GeneratorIdle
    /\ ExtractIdle
    /\ RunnerIdle

\* commandSignature of the configuration with its test kinds listed in
\* another order.
ReorderTests ==
    \E tests \in arrangements(cfgA.tests) :
        signSecond([cfgA EXCEPT !.tests = tests], "reordered")

\* The map, sort and join of commandSignature on the extracted list put in
\* another order (rotated, reversed) and with white space around the texts.
ShuffleCommands ==
    \E k \in 0..(Len(cmdsA) - 1), backwards \in BOOLEAN, pad \in Paddings :
        LET rotated  == rotate(cmdsA, k)
            shuffled == padded(IF backwards THEN reverse(rotated) ELSE rotated, pad)
        IN  /\ pc = "signed"
            /\ shuffled # cmdsA
            /\ cmdsB' = shuffled
            /\ sigB' = signatureOfCommands(shuffled)
            /\ pc' = "shuffled"
            /\ UNCHANGED <<cfgA, cfgB, docA, cmdsA, sigA>>
            /\ UNCHANGED generatorVars
            /\ UNCHANGED extractVars
            /\ UNCHANGED runnerVars

NextOrder ==
    \/ Sign
    \/ ReorderTests
    \/ ShuffleCommands

SpecOrder == InitOrder /\ [][NextOrder]_vars

-----------------------------------------------------------------------------
(* Properties of the signature under reordering (SpecOrder) *)

\* How often each (category, trimmed command) pair occurs in the list.
pairCounts(cmds) ==
    [p \in categoryCommandPairs(cmds) |->
        Cardinality({i \in 1..Len(cmds) :
                        <<cmds[i].category, trim(cmds[i].command)>> = p})]

\* C28: commandSignature depends only on the multiset of (category, trimmed
\* command) pairs of the extracted commands: lists that are permutations of
\* each other, up to white space around the texts, have equal signatures, and
\* so do configurations that list the same test kinds in another order.
C28_SignatureOrderIndependent ==
    /\ pc = "signed" => sigA = signatureOfCommands(cmdsA)
    /\ pc = "reordered" => sigB = sigA
    /\ pc = "shuffled" => sigB = sigA
    /\ (pc \in {"reordered", "shuffled"} /\ pairCounts(cmdsA) = pairCounts(cmdsB)) =>
          sigB = sigA

C28_Witness ==
    /\ pc = "shuffled"
    /\ Len(cmdsA) = 8
    /\ cmdsB[1].category = cmdsA[8].category
    /\ cmdsB[1].command # cmdsA[8].command
    /\ trim(cmdsB[1].command) = cmdsA[8].command
    /\ pairCounts(cmdsA) = pairCounts(cmdsB)
    /\ sigA = sigB

\* The configuration asks for no check at all.
testless(c) ==
    /\ c.tests = <<>>
    /\ ~c.advancedOptions.jestTests
    /\ ~c.advancedOptions.rntlTests
    /\ ~c.advancedOptions.renderHookTests

\* The candidates of generateNightlyMatrix with the empty signature.
emptySignatureCandidates == {c \in nightlyCandidates : candidateSignature[c] = ""}

testlessCandidates == {c \in nightlyCandidates : testless(c)}

\* Over every package manager, check subset, flag combination and caching
\* value: the signature is empty exactly for the test-less configurations.
emptySignatureExactlyTestless ==
    \A c \in SignatureConfigs : (signatureTable[c].signature = "") <=> testless(c)

\* The positions of the candidates visited so far that are test-less.
testlessVisited == {k \in 1..Len(visited) : testless(visited[k].entry.config)}

testlessIn(m) == {i \in 1..Len(m) : testless(m[i].config)}

\* C29: commandSignature(c) is the empty string exactly when c selects no test
\* kind and none of jestTests, rntlTests, renderHookTests, whatever the
\* package manager and the caching value; so the test-less candidates of
\* different package managers that generateNightlyMatrix visits have equal
\* signatures, and the loop keeps only the first of them, the yarn one: at
\* every point of the loop and in the returned matrix there is at most one
\* test-less entry, it is the first test-less candidate visited and its
\* package manager is yarn, and the test-less npm candidate is dropped.
C29_TestlessSignatureKeptOnce ==
    /\ emptySignatureExactlyTestless
    /\ emptySignatureCandidates = testlessCandidates
    /\ \A k \in 1..Len(visited) :
          (visited[k].sig = "") <=> testless(visited[k].entry.config)
    /\ \A k, l \in testlessVisited : visited[k].sig = visited[l].sig
    /\ Cardinality(testlessIn(entries)) = IF testlessVisited = {} THEN 0 ELSE 1
    /\ \A i \in testlessIn(entries) :
          /\ entries[i].config.packageManager = "yarn"
          /\ \A k \in testlessVisited :
                \E first \in testlessVisited :
                    first <= k /\ visited[first].entry = entries[i]
    /\ returned("nightly") =>
          /\ Cardinality(testlessIn(matrix)) = 1
          /\ \A i \in testlessIn(matrix) :
                /\ matrix[i].config.packageManager = "yarn"
                /\ matrix[i] = visited[1].entry
          /\ \E k \in testlessVisited :
                /\ visited[k].entry.config.packageManager = "npm"
                /\ visited[k].sig = visited[1].sig
                /\ \A i \in 1..Len(matrix) : matrix[i] # visited[k].entry

C29_Witness ==
    /\ returned("nightly")
    /\ Cardinality(testlessVisited) = 2
    /\ testlessIn(matrix) = {1}
    /\ matrix[1].config.packageManager = "yarn"
    /\ \E k \in testlessVisited :
          /\ k > 1
          /\ visited[k].entry.config.packageManager = "npm"
          /\ visited[k].sig = ""
          /\ visited[1].sig = ""

=============================================================================
